---- MODULE Spec2Model ----
(***************************************************************************)
(* Model of the password manager: the frame codec, the ClientHandler of   *)
(* each connection of the server (read loop, dispatch, session state), the *)
(* Database gateway it calls, package crypto, the Client and the           *)
(* MigrationManager.                                                       *)
(*                                                                         *)
(* Values are small integers: a username, password, item id, item field or *)
(* timestamp is the index of the string / value it stands for, and 0 is    *)
(* the Go zero value ("" for a string, the zero time.Time, userID 0).      *)
(*                                                                         *)
(* A handler makes at most two gateway calls (AuthenticateUser then        *)
(* GetUserID); rows of table users are never updated or deleted, so no     *)
(* step of another connection between the two calls can change their       *)
(* result and one request is modelled as one atomic action.                *)
(*                                                                         *)
(* A handler is an operator from the handler's fields, the database and    *)
(* the bytes read to the set of its outcomes (the new fields, the frames   *)
(* written, the gateway calls made, the new database); the actions apply   *)
(* it, and the properties speak about its outcomes in every reachable      *)
(* state.                                                                  *)
(*                                                                         *)
(* Ten specifications share the operators:                                 *)
(*   Spec       the server: connections are accepted and each read of each *)
(*              handler is one step;                                       *)
(*   LoopSpec   one connection, its Handle followed through conn.Read and  *)
(*              the dispatch of what was read, with the requests written   *)
(*              and the frames answered kept in order;                     *)
(*   SyncSpec   one session that authenticates and synchronises against a  *)
(*              table user_data holding several rows of several users;     *)
(*   PairSpec   two sessions, either one authenticated or not, served side *)
(*              by side over the tables earlier runs left;                 *)
(*   CodecSpec  SerializeMessage, DeserializeMessage and DeserializeHeader *)
(*              on their own;                                              *)
(*   CryptoSpec Encrypt followed by Decrypt, HashPassword followed by      *)
(*              VerifyPassword;                                            *)
(*   ClientSpec one Client, its methods called in any order against a      *)
(*              network and a server that may do anything;                 *)
(*   SendSpec   the goroutine of one handler followed statement by         *)
(*              statement through sendResponse and sendError;              *)
(*   MigrateSpec  RunMigrations run repeatedly over a migrations directory *)
(*              that changes, with the failures it may meet;               *)
(*   LinkSpec   one Client against the server: each connection it dials    *)
(*              has its handler, which answers what the Client writes.     *)
(* The variables a specification does not use keep their initial value.    *)
(***************************************************************************)
EXTENDS Integers, Sequences, FiniteSets, Bags, TLC

\* ---------------------------------------------------------------- bounds
NumConns     == 2    \* connections the accept loop accepts
MaxUsers     == 2    \* distinct usernames clients send
MaxItems     == 1    \* UUIDs gen_random_uuid() can hand out
MaxClock     == 2    \* CURRENT_TIMESTAMP takes the values 1..MaxClock
MaxMsgs      == 2    \* frames the handlers write before the model stops them
MaxReads     == 3    \* writes the client of the connection LoopSpec follows makes
MaxPayload   == 2    \* bytes of the payloads CodecSpec hands to SerializeMessage
LargeLen     == 300  \* bytes of the one large payload it hands to it

Usernames  == 1..MaxUsers
Passwords  == {1, 2}     \* the password earlier runs registered, and another
ItemIds    == 1..MaxItems
Salts      == {1}
Times      == 1..MaxClock

\* ------------------------------------------- protocol/types.go constants
MsgTypeAuthRequest        == 1
MsgTypeAuthResponse       == 2
MsgTypeRegisterRequest    == 3
MsgTypeRegisterResponse   == 4
MsgTypeSyncRequest        == 5
MsgTypeSyncResponse       == 6
MsgTypeDataRequest        == 7
MsgTypeDataResponse       == 8
MsgTypeSaveDataRequest    == 9
MsgTypeSaveDataResponse   == 10
MsgTypeDeleteDataRequest  == 11
MsgTypeDeleteDataResponse == 12
MsgTypeUpdateDataRequest  == 13
MsgTypeUpdateDataResponse == 14
MsgTypeDownloadRequest    == 15
MsgTypeDownloadResponse   == 16
MsgTypeError              == 255

HeaderLen       == 10
ProtocolVersion == 1
ErrorCode       == 500

DataTypeLoginPassword == 1
DataTypeText          == 2

\* ------------------------------------------------------------ JSON bodies
\* A JSON object is the byte '{', then one (key, value) byte pair per
\* field, then '}'.  json.Unmarshal fails on anything else, ignores keys the
\* target struct does not have and leaves an absent field at its zero value.
LBrace == 123
RBrace == 125

KUsername == 1
KPassword == 2
KItemID   == 3
KLastSync == 4
KType     == 5
KName     == 6
KData     == 7
KMetadata == 8

\* a last_sync string that is not RFC3339
BadTime == 99

Marshal(fields) ==
    <<LBrace>> \o fields \o <<RBrace>>

WellFormed(data) ==
    /\ Len(data) >= 2
    /\ (Len(data) % 2) = 0
    /\ data[1] = LBrace
    /\ data[Len(data)] = RBrace

\* value of key k in a well-formed body, 0 when the key is absent
Field(data, k) ==
    LET pos == {i \in 1..((Len(data) - 2) \div 2) : data[2 * i] = k}
    IN  IF pos = {} THEN 0
        ELSE data[2 * (CHOOSE i \in pos : \A j \in pos : j <= i) + 1]

DeserializeAuthRequest(data) ==
    IF WellFormed(data)
    THEN [err |-> FALSE, Username |-> Field(data, KUsername),
          Password |-> Field(data, KPassword)]
    ELSE [err |-> TRUE, Username |-> 0, Password |-> 0]

DeserializeRegisterRequest(data) ==
    IF WellFormed(data)
    THEN [err |-> FALSE, Username |-> Field(data, KUsername),
          Password |-> Field(data, KPassword)]
    ELSE [err |-> TRUE, Username |-> 0, Password |-> 0]

DeserializeSyncRequest(data) ==
    IF ~WellFormed(data) THEN [err |-> TRUE, LastSync |-> 0]
    ELSE IF Field(data, KLastSync) = BadTime THEN [err |-> TRUE, LastSync |-> 0]
    ELSE [err |-> FALSE, LastSync |-> Field(data, KLastSync)]

DeserializeItemID(data) ==
    IF WellFormed(data)
    THEN [err |-> FALSE, ItemID |-> Field(data, KItemID)]
    ELSE [err |-> TRUE, ItemID |-> 0]

NewDataItem(data) ==
    [Type |-> Field(data, KType), Name |-> Field(data, KName),
     Data |-> Field(data, KData), Metadata |-> Field(data, KMetadata)]

NoNewDataItem == [Type |-> 0, Name |-> 0, Data |-> 0, Metadata |-> 0]

DeserializeSaveDataRequest(data) ==
    IF WellFormed(data)
    THEN [err |-> FALSE, Item |-> NewDataItem(data)]
    ELSE [err |-> TRUE, Item |-> NoNewDataItem]

DeserializeUpdateDataRequest(data) ==
    IF WellFormed(data)
    THEN [err |-> FALSE, ItemID |-> Field(data, KItemID), Item |-> NewDataItem(data)]
    ELSE [err |-> TRUE, ItemID |-> 0, Item |-> NoNewDataItem]

\* -------------------------------------------------------------- frame codec
\* A uint32 is held as the 32-bit integer with the same bits: the values
\* from 2^31 up are the negative ones, 4294967295 is -1.
MaxUint32 == -1

\* x++ on a uint32: wraps from 4294967295 to 0
Inc32(x) ==
    IF x = MaxUint32 THEN 0
    ELSE IF x = 2147483647 THEN -2147483647 - 1
    ELSE x + 1

\* a < b on two uint32
Less32(a, b) ==
    IF (a >= 0) = (b >= 0) THEN a < b ELSE a >= 0

\* PutUint32 that writes the least significant byte first
PutUint32_LittleEndian(v) ==
    << v % 256, (v \div 256) % 256, (v \div 65536) % 256, (v \div 16777216) % 256 >>

\* binary.BigEndian.PutUint32
PutUint32(v) ==
    << (v \div 16777216) % 256, (v \div 65536) % 256, (v \div 256) % 256, v % 256 >>

\* binary.BigEndian.Uint32
Uint32(b) ==
    (((IF b[1] >= 128 THEN b[1] - 256 ELSE b[1]) * 256 + b[2]) * 256 + b[3]) * 256 + b[4]

\* SerializeMessage whose Length counts the header too
SerializeMessage_LengthOfFrame(msgType, messageID, data) ==
    <<msgType, ProtocolVersion>> \o PutUint32(messageID)
        \o PutUint32(HeaderLen + Len(data)) \o data

SerializeMessage(msgType, messageID, data) ==
    <<msgType, ProtocolVersion>> \o PutUint32(messageID) \o PutUint32(Len(data)) \o data

NoHeader == [Type |-> 0, Version |-> 0, MessageID |-> 0, Length |-> 0]

\* len(data) < 10+int(header.Length): int has 64 bits, so a Length of 2^31
\* or more is larger than any slice
Truncated(data, header) ==
    header.Length < 0 \/ Len(data) - HeaderLen < header.Length

\* DeserializeMessage that accepts only frames of ProtocolVersion
DeserializeMessage_ChecksVersion(data) ==
    IF Len(data) < HeaderLen \/ data[2] # ProtocolVersion
    THEN [err |-> TRUE, header |-> NoHeader, payload |-> <<>>]
    ELSE LET header == [Type      |-> data[1],
                        Version   |-> data[2],
                        MessageID |-> Uint32(SubSeq(data, 3, 6)),
                        Length    |-> Uint32(SubSeq(data, 7, 10))]
         IN  IF Truncated(data, header)
             THEN [err |-> FALSE, header |-> header, payload |-> <<>>]
             ELSE [err |-> FALSE, header |-> header,
                   payload |-> SubSeq(data, HeaderLen + 1, HeaderLen + header.Length)]

DeserializeMessage(data) ==
    IF Len(data) < HeaderLen
    THEN [err |-> TRUE, header |-> NoHeader, payload |-> <<>>]
    ELSE LET header == [Type      |-> data[1],
                        Version   |-> data[2],
                        MessageID |-> Uint32(SubSeq(data, 3, 6)),
                        Length    |-> Uint32(SubSeq(data, 7, 10))]
         IN  IF Truncated(data, header)
             THEN [err |-> FALSE, header |-> header, payload |-> <<>>]
             ELSE [err |-> FALSE, header |-> header,
                   payload |-> SubSeq(data, HeaderLen + 1, HeaderLen + header.Length)]

\* DeserializeHeader that returns MessageHeader{} and no error on a short input
DeserializeHeader_NilOnShort(data) ==
    IF Len(data) < HeaderLen
    THEN [err |-> FALSE, header |-> NoHeader]
    ELSE [err |-> FALSE,
          header |-> [Type      |-> data[1],
                      Version   |-> data[2],
                      MessageID |-> Uint32(SubSeq(data, 3, 6)),
                      Length    |-> Uint32(SubSeq(data, 7, 10))]]

\* the only error DeserializeMessage and DeserializeHeader return is
\* ErrInvalidMessage
DeserializeHeader(data) ==
    IF Len(data) < HeaderLen
    THEN [err |-> TRUE, header |-> NoHeader]
    ELSE [err |-> FALSE,
          header |-> [Type      |-> data[1],
                      Version   |-> data[2],
                      MessageID |-> Uint32(SubSeq(data, 3, 6)),
                      Length    |-> Uint32(SubSeq(data, 7, 10))]]

\* ------------------------------------------------------------------ crypto
\* pbkdf2.Key is a deterministic function of (password, salt) without
\* collisions on the model's inputs; base64 wraps the bytes it encodes.
\* a derivation that leaves the password out
Pbkdf2Key_SaltOnly(password, salt) == <<0, salt>>

Pbkdf2Key(password, salt) == <<password, salt>>

EncodeToString(bytes) == [b64 |-> bytes]

\* a decoder that skips what it cannot decode and reports no error
DecodeString_Lenient(s) ==
    IF "b64" \in DOMAIN s THEN [err |-> FALSE, bytes |-> s.b64]
    ELSE [err |-> FALSE, bytes |-> <<>>]

DecodeString(s) ==
    IF "b64" \in DOMAIN s THEN [err |-> FALSE, bytes |-> s.b64]
    ELSE [err |-> TRUE, bytes |-> <<>>]

HashPassword(password, salt) ==
    [hash |-> EncodeToString(Pbkdf2Key(password, salt)), salt |-> EncodeToString(salt)]

VerifyPassword(password, storedHash, storedSalt) ==
    LET salt == DecodeString(storedSalt)
    IN  IF salt.err THEN FALSE
        ELSE EncodeToString(Pbkdf2Key(password, salt.bytes)) = storedHash

\* base64 of no bytes is the empty string; a string with characters outside
\* the alphabet ("invalid-base64!") decodes to nothing
EmptyString == EncodeToString(<<>>)

NotBase64 == [raw |-> <<1>>]

\* ---------------------------------------------------- crypto: the envelope
\* A byte string is a sequence of 0..255; nil and the empty slice are <<>>.
NonceSize == 12    \* gcm.NonceSize()
TagSize   == 16    \* gcm.Overhead()
KeySize   == 32

Failure == [err |-> TRUE, out |-> <<>>, panic |-> FALSE]

Success(out) == [err |-> FALSE, out |-> out, panic |-> FALSE]

Panic == [err |-> FALSE, out |-> <<>>, panic |-> TRUE]

\* aes.NewCipher: KeySizeError unless the key has 16, 24 or 32 bytes
NewCipher(key) == [err |-> Len(key) \notin {16, 24, KeySize}]

\* one byte out of a byte string, which changes when any one byte of the
\* string changes: the sum of the bytes, each weighted by its position
RECURSIVE Mix(_)
Mix(b) ==
    IF b = <<>> THEN 0
    ELSE (Len(b) * b[Len(b)] + Mix(SubSeq(b, 1, Len(b) - 1))) % 256

\* AES in counter mode: byte i of the key stream depends on the key, the
\* nonce and i
KeyStream(key, nonce, i) == (Mix(key) + Mix(nonce) + i) % 256

\* the GCM tag: TagSize bytes that no two (key, nonce, ciphertext) of the
\* model share
Tag(key, nonce, ct) ==
    LET digest == <<Mix(key), key[Len(key)], Mix(nonce), Len(ct)>> \o ct
    IN  [i \in 1..TagSize |-> IF i <= Len(digest) THEN digest[i] ELSE 0]

\* gcm.Seal(dst, nonce, plaintext, nil): dst, then the ciphertext, then the tag
Seal(key, dst, nonce, plaintext) ==
    LET ct == [i \in 1..Len(plaintext) |->
                  (plaintext[i] + KeyStream(key, nonce, i)) % 256]
    IN  dst \o ct \o Tag(key, nonce, ct)

\* gcm.Open(nil, nonce, ciphertext, nil): errOpen and nil unless the tag at
\* the end of ciphertext is the tag of what precedes it
Open(key, nonce, ciphertext) ==
    IF Len(ciphertext) < TagSize THEN Failure
    ELSE LET n   == Len(ciphertext) - TagSize
             ct  == SubSeq(ciphertext, 1, n)
             tag == SubSeq(ciphertext, n + 1, Len(ciphertext))
         IN  IF tag # Tag(key, nonce, ct) THEN Failure
             ELSE Success([i \in 1..n |-> (ct[i] - KeyStream(key, nonce, i)) % 256])

\* Seal(nil, nonce, data, nil): the nonce is not kept with the ciphertext
Encrypt_NonceNotStored(data, key, nonce, randErr) ==
    IF NewCipher(key).err THEN Failure
    ELSE IF randErr THEN Failure
    ELSE Success(Seal(key, <<>>, nonce, data))

\* nonce is what io.ReadFull(rand.Reader, nonce) filled in, randErr its error
Encrypt(data, key, nonce, randErr) ==
    IF NewCipher(key).err THEN Failure
    ELSE IF randErr THEN Failure
    ELSE Success(Seal(key, nonce, nonce, data))

\* without the length test data[:nonceSize] is out of range
Decrypt_NoLengthTest(data, key) ==
    IF NewCipher(key).err THEN Failure
    ELSE IF Len(data) < NonceSize THEN Panic
    ELSE LET r == Open(key, SubSeq(data, 1, NonceSize),
                       SubSeq(data, NonceSize + 1, Len(data)))
         IN  IF r.err THEN Failure ELSE Success(r.out)

Decrypt(data, key) ==
    IF NewCipher(key).err THEN Failure
    ELSE IF Len(data) < NonceSize THEN Failure    \* "ciphertext too short"
    ELSE LET nonce      == SubSeq(data, 1, NonceSize)
             ciphertext == SubSeq(data, NonceSize + 1, Len(data))
             r          == Open(key, nonce, ciphertext)
         IN  IF r.err THEN Failure ELSE Success(r.out)

\* ------------------------------------------------------------------- state
\* Server.Start keeps no list of its handlers: each lives in the goroutine
\* that runs its Handle, and which connection a handler serves changes
\* nothing it does.  The live handlers are a bag of their fields.
VARIABLES
    users,      \* table users: username -> [id, password_hash, password_salt]
    userSeq,    \* the SERIAL sequence behind users.id
    items,      \* table user_data: id -> row
    handlers,   \* bag of the ClientHandlers (username, userID, messageID)
                \* whose Handle is running
    accepted,   \* connections Server.Start has accepted
    listening,  \* Server.Start is in its accept loop
    written,    \* frames the handlers have written, on all connections
    \* one connection, step by step (LoopSpec)
    pc,         \* where its Handle is: "read", "dispatch", "closed"
    stream,     \* what the client has written to it, one element per Write
    pos,        \* how many of those Handle's conn.Read calls have returned
    outbox,     \* the frames Handle has written to it, in order
    \* the frame codec on its own (CodecSpec)
    call,       \* the arguments of the last SerializeMessage
    wire,       \* the frame it returned
    received,   \* the bytes of it handed to the decoder
    decoded,    \* what DeserializeMessage / DeserializeHeader returned
    \* package crypto on its own (CryptoSpec)
    made,       \* the last call of Encrypt or HashPassword and what it returned
    used,       \* the call of Decrypt or VerifyPassword that followed it
    \* one Client (ClientSpec)
    client,     \* its fields conn, token, username
    returns,    \* what the calls of its methods have returned so far
    sessions,   \* the server's end of the connections it dialed, in order
    \* one handler inside sendResponse / sendError (SendSpec)
    messageMux, \* h.messageMux is locked
    stack,      \* the calls its goroutine is in, innermost last
    \* the MigrationManager (MigrateSpec)
    migrations, \* table migrations: the names recorded
    schema,     \* the migration files whose statements are committed, in order
    ran         \* the last RunMigrations: the directory it saw, what it returned

serverVars == <<users, userSeq, items, handlers, accepted, listening, written>>
loopVars   == <<pc, stream, pos, outbox>>
codecVars  == <<call, wire, received, decoded>>
cryptoVars == <<made, used>>
clientVars == <<client, returns, sessions>>
sendVars == <<messageMux, stack>>
migrationVars == <<migrations, schema, ran>>

vars == <<serverVars, loopVars, codecVars, cryptoVars, clientVars, sendVars, migrationVars>>

\* the database as the gateway sees it
DB == [users |-> users, userSeq |-> userSeq, items |-> items]

\* NewClientHandler
NewClientHandler == [username |-> 0, userID |-> 0, messageID |-> 0]

\* AuthenticateUser that reports every existing user as verified
AuthenticateUser_AnyPassword(db, username, password, fail) ==
    IF fail THEN [ok |-> FALSE, err |-> TRUE]
    ELSE IF username \notin DOMAIN db.users THEN [ok |-> FALSE, err |-> FALSE]
    ELSE [ok |-> TRUE, err |-> FALSE]

\* AuthenticateUser that returns the ErrNoRows of Scan instead of (false, nil)
AuthenticateUser_NoRowsIsError(db, username, password, fail) ==
    IF fail THEN [ok |-> FALSE, err |-> TRUE]
    ELSE IF username \notin DOMAIN db.users THEN [ok |-> FALSE, err |-> TRUE]
    ELSE [ok  |-> VerifyPassword(password, db.users[username].password_hash,
                                 db.users[username].password_salt),
          err |-> FALSE]

\* --------------------------------------------------------- storage gateway
\* Every gateway operator takes fail: the database reports an error for
\* this call (lost connection, constraint, malformed uuid).
AuthenticateUser(db, username, password, fail) ==
    IF fail THEN [ok |-> FALSE, err |-> TRUE]
    ELSE IF username \notin DOMAIN db.users THEN [ok |-> FALSE, err |-> FALSE]
    ELSE [ok  |-> VerifyPassword(password, db.users[username].password_hash,
                                 db.users[username].password_salt),
          err |-> FALSE]

\* GetUserID that drops the error of Scan and returns the zero id
GetUserID_DropsError(db, username, fail) ==
    IF fail \/ username \notin DOMAIN db.users THEN [id |-> 0, err |-> FALSE]
    ELSE [id |-> db.users[username].id, err |-> FALSE]

GetUserID(db, username, fail) ==
    IF fail \/ username \notin DOMAIN db.users THEN [id |-> 0, err |-> TRUE]
    ELSE [id |-> db.users[username].id, err |-> FALSE]

\* CreateUser whose INSERT ends ON CONFLICT (username) DO UPDATE
CreateUser_Upsert(db, username, password, salt, fail) ==
    IF fail THEN [err |-> TRUE, db |-> db]
    ELSE LET rec == HashPassword(password, salt)
             row == [id |-> IF username \in DOMAIN db.users
                            THEN db.users[username].id ELSE db.userSeq,
                     password_hash |-> rec.hash, password_salt |-> rec.salt]
         IN  [err |-> FALSE,
              db  |-> [db EXCEPT !.users = [u \in DOMAIN db.users \cup {username} |->
                                               IF u = username THEN row ELSE db.users[u]],
                                 !.userSeq = @ + 1]]

\* CreateUser that calls HashPassword once for the hash and once more for
\* the salt it stores
CreateUser_SaltOfSecondCall(db, username, password, salt, fail) ==
    IF fail \/ username \in DOMAIN db.users
    THEN [err |-> TRUE, db |-> db]
    ELSE LET rec == HashPassword(password, salt)
             row == [id |-> db.userSeq, password_hash |-> rec.hash,
                     password_salt |-> HashPassword(password, salt + 1).salt]
         IN  [err |-> FALSE,
              db  |-> [db EXCEPT !.users = [u \in DOMAIN db.users \cup {username} |->
                                               IF u = username THEN row ELSE db.users[u]],
                                 !.userSeq = @ + 1]]

\* INSERT INTO users: username is UNIQUE, id is the next value of the sequence
CreateUser(db, username, password, salt, fail) ==
    IF fail \/ username \in DOMAIN db.users
    THEN [err |-> TRUE, db |-> db]
    ELSE LET rec == HashPassword(password, salt)
             row == [id |-> db.userSeq, password_hash |-> rec.hash,
                     password_salt |-> rec.salt]
         IN  [err |-> FALSE,
              db  |-> [db EXCEPT !.users = [u \in DOMAIN db.users \cup {username} |->
                                               IF u = username THEN row ELSE db.users[u]],
                                 !.userSeq = @ + 1]]

DataItem(db, id) ==
    [ID |-> id, Type |-> db.items[id].data_type, Name |-> db.items[id].name,
     Data |-> db.items[id].data, Metadata |-> db.items[id].metadata,
     CreatedAt |-> db.items[id].created_at, UpdatedAt |-> db.items[id].updated_at]

NoDataItem ==
    [ID |-> 0, Type |-> 0, Name |-> 0, Data |-> 0, Metadata |-> 0,
     CreatedAt |-> 0, UpdatedAt |-> 0]

\* GetDataByID whose WHERE clause is only id = $2
GetDataByID_AnyOwner(db, userID, itemID, fail) ==
    IF fail \/ itemID \notin DOMAIN db.items THEN [err |-> TRUE, item |-> NoDataItem]
    ELSE [err |-> FALSE, item |-> DataItem(db, itemID)]

\* SELECT ... WHERE user_id = $1 AND id = $2
GetDataByID(db, userID, itemID, fail) ==
    IF fail \/ itemID \notin DOMAIN db.items THEN [err |-> TRUE, item |-> NoDataItem]
    ELSE IF db.items[itemID].user_id # userID THEN [err |-> TRUE, item |-> NoDataItem]
    ELSE [err |-> FALSE, item |-> DataItem(db, itemID)]

\* the values CURRENT_TIMESTAMP can have in a statement: the clock of the
\* database does not run backwards, so none before a timestamp already
\* stored in user_data
CurrentTimestamp(db) ==
    {t \in Times : \A i \in DOMAIN db.items : db.items[i].updated_at <= t}

\* StoreData whose INSERT leaves user_id out
StoreData_OwnerUnset(db, userID, item, id, ts, fail) ==
    IF fail THEN [err |-> TRUE, db |-> db]
    ELSE LET row == [user_id |-> 0, data_type |-> item.Type, name |-> item.Name,
                     data |-> item.Data, metadata |-> item.Metadata,
                     created_at |-> ts, updated_at |-> ts]
         IN  [err |-> FALSE,
              db  |-> [db EXCEPT !.items = [i \in DOMAIN db.items \cup {id} |->
                                               IF i = id THEN row ELSE db.items[i]]]]

\* INSERT INTO user_data: id is the uuid gen_random_uuid() returned, both
\* timestamps default to CURRENT_TIMESTAMP (ts)
StoreData(db, userID, item, id, ts, fail) ==
    IF fail THEN [err |-> TRUE, db |-> db]
    ELSE LET row == [user_id |-> userID, data_type |-> item.Type, name |-> item.Name,
                     data |-> item.Data, metadata |-> item.Metadata,
                     created_at |-> ts, updated_at |-> ts]
         IN  [err |-> FALSE,
              db  |-> [db EXCEPT !.items = [i \in DOMAIN db.items \cup {id} |->
                                               IF i = id THEN row ELSE db.items[i]]]]

\* DELETE FROM user_data WHERE user_id = $1 AND id = $2.  A string that is
\* not a uuid is an error; a statement that matches no row is not.
DeleteData(db, userID, itemID, fail) ==
    IF fail \/ itemID \notin ItemIds THEN [err |-> TRUE, db |-> db]
    ELSE LET keep == {i \in DOMAIN db.items :
                         ~(i = itemID /\ db.items[i].user_id = userID)}
         IN  [err |-> FALSE, db |-> [db EXCEPT !.items = [i \in keep |-> db.items[i]]]]

\* UpdateData whose WHERE clause is only id = $6
UpdateData_AnyOwner(db, userID, itemID, item, ts, fail) ==
    IF fail \/ itemID \notin ItemIds THEN [err |-> TRUE, db |-> db]
    ELSE [err |-> FALSE,
          db  |-> [db EXCEPT !.items =
                      [i \in DOMAIN db.items |->
                          IF i = itemID
                          THEN [db.items[i] EXCEPT !.data_type = item.Type,
                                                   !.name = item.Name,
                                                   !.data = item.Data,
                                                   !.metadata = item.Metadata,
                                                   !.updated_at = ts]
                          ELSE db.items[i]]]]

\* UpdateData that sets created_at = CURRENT_TIMESTAMP as well
UpdateData_ResetsCreatedAt(db, userID, itemID, item, ts, fail) ==
    IF fail \/ itemID \notin ItemIds THEN [err |-> TRUE, db |-> db]
    ELSE [err |-> FALSE,
          db  |-> [db EXCEPT !.items =
                      [i \in DOMAIN db.items |->
                          IF i = itemID /\ db.items[i].user_id = userID
                          THEN [db.items[i] EXCEPT !.data_type = item.Type,
                                                   !.name = item.Name,
                                                   !.data = item.Data,
                                                   !.metadata = item.Metadata,
                                                   !.created_at = ts,
                                                   !.updated_at = ts]
                          ELSE db.items[i]]]]

\* UPDATE user_data SET ... updated_at = CURRENT_TIMESTAMP (ts)
\*  WHERE user_id = $5 AND id = $6
UpdateData(db, userID, itemID, item, ts, fail) ==
    IF fail \/ itemID \notin ItemIds THEN [err |-> TRUE, db |-> db]
    ELSE [err |-> FALSE,
          db  |-> [db EXCEPT !.items =
                      [i \in DOMAIN db.items |->
                          IF i = itemID /\ db.items[i].user_id = userID
                          THEN [db.items[i] EXCEPT !.data_type = item.Type,
                                                   !.name = item.Name,
                                                   !.data = item.Data,
                                                   !.metadata = item.Metadata,
                                                   !.updated_at = ts]
                          ELSE db.items[i]]]]

\* GetData whose WHERE clause is user_id = $1 AND updated_at >= $2
GetData_NotBefore(db, userID, lastSync) ==
    LET match == {i \in DOMAIN db.items :
                     db.items[i].user_id = userID /\ db.items[i].updated_at >= lastSync}
        n == Cardinality(match)
    IN  {[k \in 1..n |-> DataItem(db, s[k])] :
            s \in {t \in [1..n -> match] :
                     /\ \A i, j \in 1..n : i # j => t[i] # t[j]
                     /\ \A i, j \in 1..n :
                           i < j => db.items[t[i]].updated_at <= db.items[t[j]].updated_at}}

\* SELECT ... WHERE user_id = $1 AND updated_at > $2 ORDER BY updated_at:
\* the orders the database may return the matching rows in
GetData(db, userID, lastSync) ==
    LET match == {i \in DOMAIN db.items :
                     db.items[i].user_id = userID /\ db.items[i].updated_at > lastSync}
        n == Cardinality(match)
    IN  {[k \in 1..n |-> DataItem(db, s[k])] :
            s \in {t \in [1..n -> match] :
                     /\ \A i, j \in 1..n : i # j => t[i] # t[j]
                     /\ \A i, j \in 1..n :
                           i < j => db.items[t[i]].updated_at <= db.items[t[j]].updated_at}}

\* ------------------------------------------------------------ ClientHandler
\* sendError without its h.messageID++
sendError_NoIncrement(h, message) ==
    [h   |-> h,
     out |-> << [Type |-> MsgTypeError, Version |-> ProtocolVersion,
                 MessageID |-> h.messageID,
                 Body |-> [Code |-> ErrorCode, Message |-> message]] >>]

\* sendError / sendResponse write one frame carrying h.messageID and then
\* increment it (h.messageID++ on a uint32).
sendError(h, message) ==
    [h   |-> [h EXCEPT !.messageID = Inc32(@)],
     out |-> << [Type |-> MsgTypeError, Version |-> ProtocolVersion,
                 MessageID |-> h.messageID,
                 Body |-> [Code |-> ErrorCode, Message |-> message]] >>]

sendResponse(h, msgType, resp) ==
    [h   |-> [h EXCEPT !.messageID = Inc32(@)],
     out |-> << [Type |-> msgType, Version |-> ProtocolVersion,
                 MessageID |-> h.messageID, Body |-> resp] >>]

\* what one iteration of the read loop resulted in: the handler's fields,
\* the frames written, the gateway calls made in order, the database, and
\* whether Handle returned (the deferred conn.Close runs) instead of reading
\* again
Outcome(sent, calls, db) ==
    [h |-> sent.h, out |-> sent.out, calls |-> calls, db |-> db, closed |-> FALSE]

\* handleAuthRequest that stores the username before it verifies anything
handleAuthRequest_NameFirst(h, db, data, fail) ==
    LET r    == DeserializeAuthRequest(data)
        auth == AuthenticateUser(db, r.Username, r.Password, fail = 1)
        uid  == GetUserID(db, r.Username, fail = 2)
        h1   == [h EXCEPT !.username = r.Username]
    IN  IF r.err
        THEN {Outcome(sendError(h, "Invalid auth request format"), <<>>, db)}
        ELSE IF auth.err
        THEN {Outcome(sendError(h1, "Authentication error"), <<"AuthenticateUser">>, db)}
        ELSE IF auth.ok
        THEN IF uid.err
             THEN {Outcome(sendError(h1, "User not found"),
                           <<"AuthenticateUser", "GetUserID">>, db)}
             ELSE {Outcome(sendResponse([h1 EXCEPT !.userID = uid.id],
                                        MsgTypeAuthResponse,
                                        [Success |-> TRUE, Token |-> "dummy-token"]),
                           <<"AuthenticateUser", "GetUserID">>, db)}
        ELSE {Outcome(sendError(h1, "Authentication failed: invalid credentials"),
                      <<"AuthenticateUser">>, db)}

handleAuthRequest(h, db, data, fail) ==
    LET r    == DeserializeAuthRequest(data)
        auth == AuthenticateUser(db, r.Username, r.Password, fail = 1)
        uid  == GetUserID(db, r.Username, fail = 2)
    IN  IF r.err
        THEN {Outcome(sendError(h, "Invalid auth request format"), <<>>, db)}
        ELSE IF auth.err
        THEN {Outcome(sendError(h, "Authentication error"), <<"AuthenticateUser">>, db)}
        ELSE IF auth.ok
        THEN IF uid.err
             THEN {Outcome(sendError([h EXCEPT !.username = r.Username], "User not found"),
                           <<"AuthenticateUser", "GetUserID">>, db)}
             ELSE {Outcome(sendResponse([h EXCEPT !.username = r.Username,
                                                  !.userID = uid.id],
                                        MsgTypeAuthResponse,
                                        [Success |-> TRUE, Token |-> "dummy-token"]),
                           <<"AuthenticateUser", "GetUserID">>, db)}
        ELSE {Outcome(sendError(h, "Authentication failed: invalid credentials"),
                      <<"AuthenticateUser">>, db)}

\* handleRegisterRequest that logs the new user in
handleRegisterRequest_LogsIn(h, db, data, fail) ==
    LET r == DeserializeRegisterRequest(data)
    IN  IF r.err
        THEN {Outcome(sendError(h, "Invalid register request format"), <<>>, db)}
        ELSE {LET res == CreateUser(db, r.Username, r.Password, salt, fail = 1)
              IN  IF res.err
                  THEN Outcome(sendError(h, "Registration failed: " \o
                                   (IF fail = 1 THEN "db error" ELSE "duplicate key")),
                               <<"CreateUser">>, res.db)
                  ELSE Outcome(sendResponse([h EXCEPT !.username = r.Username,
                                                      !.userID = res.db.users[r.Username].id],
                                   MsgTypeRegisterResponse,
                                   [Success |-> TRUE,
                                    Message |-> "User registered successfully"]),
                               <<"CreateUser">>, res.db)
              : salt \in Salts}

handleRegisterRequest(h, db, data, fail) ==
    LET r == DeserializeRegisterRequest(data)
    IN  IF r.err
        THEN {Outcome(sendError(h, "Invalid register request format"), <<>>, db)}
        ELSE {LET res == CreateUser(db, r.Username, r.Password, salt, fail = 1)
              IN  IF res.err
                  THEN Outcome(sendError(h, "Registration failed: " \o
                                   (IF fail = 1 THEN "db error" ELSE "duplicate key")),
                               <<"CreateUser">>, res.db)
                  ELSE Outcome(sendResponse(h, MsgTypeRegisterResponse,
                                   [Success |-> TRUE,
                                    Message |-> "User registered successfully"]),
                               <<"CreateUser">>, res.db)
              : salt \in Salts}

\* handleSyncRequest that calls GetData once more when it fails
handleSyncRequest_Retries(h, db, data, fail) ==
    LET r == DeserializeSyncRequest(data)
    IN  IF h.userID = 0
        THEN {Outcome(sendError(h, "Not authenticated"), <<>>, db)}
        ELSE IF r.err
        THEN {Outcome(sendError(h, "Invalid sync request format"), <<>>, db)}
        ELSE IF fail = 1
        THEN {Outcome(sendResponse(h, MsgTypeSyncResponse, [Items |-> list]),
                      <<"GetData", "GetData">>, db)
              : list \in GetData(db, h.userID, r.LastSync)}
        ELSE {Outcome(sendResponse(h, MsgTypeSyncResponse, [Items |-> list]),
                      <<"GetData">>, db)
              : list \in GetData(db, h.userID, r.LastSync)}

handleSyncRequest(h, db, data, fail) ==
    LET r == DeserializeSyncRequest(data)
    IN  IF h.userID = 0
        THEN {Outcome(sendError(h, "Not authenticated"), <<>>, db)}
        ELSE IF r.err
        THEN {Outcome(sendError(h, "Invalid sync request format"), <<>>, db)}
        ELSE IF fail = 1
        THEN {Outcome(sendError(h, "Failed to get data"), <<"GetData">>, db)}
        ELSE {Outcome(sendResponse(h, MsgTypeSyncResponse, [Items |-> list]),
                      <<"GetData">>, db)
              : list \in GetData(db, h.userID, r.LastSync)}

\* handleDataRequest without the h.userID == 0 test
handleDataRequest_NoGate(h, db, data, fail) ==
    LET r   == DeserializeItemID(data)
        res == GetDataByID(db, h.userID, r.ItemID, fail = 1)
    IN  IF r.err
        THEN {Outcome(sendError(h, "Invalid data request format"), <<>>, db)}
        ELSE IF res.err
        THEN {Outcome(sendError(h, "Data not found"), <<"GetDataByID">>, db)}
        ELSE {Outcome(sendResponse(h, MsgTypeDataResponse, [Item |-> res.item]),
                      <<"GetDataByID">>, db)}

handleDataRequest(h, db, data, fail) ==
    LET r   == DeserializeItemID(data)
        res == GetDataByID(db, h.userID, r.ItemID, fail = 1)
    IN  IF h.userID = 0
        THEN {Outcome(sendError(h, "Not authenticated"), <<>>, db)}
        ELSE IF r.err
        THEN {Outcome(sendError(h, "Invalid data request format"), <<>>, db)}
        ELSE IF res.err
        THEN {Outcome(sendError(h, "Data not found"), <<"GetDataByID">>, db)}
        ELSE {Outcome(sendResponse(h, MsgTypeDataResponse, [Item |-> res.item]),
                      <<"GetDataByID">>, db)}

handleSaveDataRequest(h, db, data, fail) ==
    LET r == DeserializeSaveDataRequest(data)
    IN  IF h.userID = 0
        THEN {Outcome(sendError(h, "Not authenticated"), <<>>, db)}
        ELSE IF r.err
        THEN {Outcome(sendError(h, "Invalid save data request format"), <<>>, db)}
        ELSE IF fail = 1
        THEN {Outcome(sendError(h, "Failed to store data: " \o "db error"),
                      <<"StoreData">>, db)}
        ELSE {Outcome(sendResponse(h, MsgTypeSaveDataResponse,
                          [Success |-> TRUE, Message |-> "Data saved successfully",
                           ItemID |-> 0]),
                      <<"StoreData">>, StoreData(db, h.userID, r.Item, id, ts, FALSE).db)
              : id \in ItemIds \ DOMAIN db.items, ts \in CurrentTimestamp(db)}

handleDeleteDataRequest(h, db, data, fail) ==
    LET r   == DeserializeItemID(data)
        res == DeleteData(db, h.userID, r.ItemID, fail = 1)
    IN  IF h.userID = 0
        THEN {Outcome(sendError(h, "Not authenticated"), <<>>, db)}
        ELSE IF r.err
        THEN {Outcome(sendError(h, "Invalid delete data request format"), <<>>, db)}
        ELSE IF res.err
        THEN {Outcome(sendError(h, "Failed to delete data: " \o "db error"),
                      <<"DeleteData">>, res.db)}
        ELSE {Outcome(sendResponse(h, MsgTypeDeleteDataResponse,
                          [Success |-> TRUE, Message |-> "Data deleted successfully"]),
                      <<"DeleteData">>, res.db)}

handleUpdateDataRequest(h, db, data, fail) ==
    LET r == DeserializeUpdateDataRequest(data)
    IN  IF h.userID = 0
        THEN {Outcome(sendError(h, "Not authenticated"), <<>>, db)}
        ELSE IF r.err
        THEN {Outcome(sendError(h, "Invalid update data request format"), <<>>, db)}
        ELSE {LET res == UpdateData(db, h.userID, r.ItemID, r.Item, ts, fail = 1)
              IN  IF res.err
                  THEN Outcome(sendError(h, "Failed to update data: " \o "db error"),
                               <<"UpdateData">>, res.db)
                  ELSE Outcome(sendResponse(h, MsgTypeUpdateDataResponse,
                                   [Success |-> TRUE,
                                    Message |-> "Data updated successfully"]),
                               <<"UpdateData">>, res.db)
              : ts \in CurrentTimestamp(db)}

handleDownloadRequest(h, db, data, fail) ==
    LET r   == DeserializeItemID(data)
        res == GetDataByID(db, h.userID, r.ItemID, fail = 1)
    IN  IF h.userID = 0
        THEN {Outcome(sendError(h, "Not authenticated"), <<>>, db)}
        ELSE IF r.err
        THEN {Outcome(sendError(h, "Invalid download request format"), <<>>, db)}
        ELSE IF res.err
        THEN {Outcome(sendError(h, "Data not found"), <<"GetDataByID">>, db)}
        ELSE {Outcome(sendResponse(h, MsgTypeDownloadResponse,
                          [Success |-> TRUE, Data |-> res.item.Data,
                           Message |-> "Download successful"]),
                      <<"GetDataByID">>, db)}

\* handleMessage whose switch has no default case
handleMessage_NoDefault(h, db, msgType, data, fail) ==
    CASE msgType = MsgTypeAuthRequest       -> handleAuthRequest(h, db, data, fail)
      [] msgType = MsgTypeRegisterRequest   -> handleRegisterRequest(h, db, data, fail)
      [] msgType = MsgTypeSyncRequest       -> handleSyncRequest(h, db, data, fail)
      [] msgType = MsgTypeDataRequest       -> handleDataRequest(h, db, data, fail)
      [] msgType = MsgTypeSaveDataRequest   -> handleSaveDataRequest(h, db, data, fail)
      [] msgType = MsgTypeDeleteDataRequest -> handleDeleteDataRequest(h, db, data, fail)
      [] msgType = MsgTypeUpdateDataRequest -> handleUpdateDataRequest(h, db, data, fail)
      [] msgType = MsgTypeDownloadRequest   -> handleDownloadRequest(h, db, data, fail)
      [] OTHER -> {[h |-> h, out |-> <<>>, calls |-> <<>>, db |-> db, closed |-> FALSE]}

handleMessage(h, db, msgType, data, fail) ==
    CASE msgType = MsgTypeAuthRequest       -> handleAuthRequest(h, db, data, fail)
      [] msgType = MsgTypeRegisterRequest   -> handleRegisterRequest(h, db, data, fail)
      [] msgType = MsgTypeSyncRequest       -> handleSyncRequest(h, db, data, fail)
      [] msgType = MsgTypeDataRequest       -> handleDataRequest(h, db, data, fail)
      [] msgType = MsgTypeSaveDataRequest   -> handleSaveDataRequest(h, db, data, fail)
      [] msgType = MsgTypeDeleteDataRequest -> handleDeleteDataRequest(h, db, data, fail)
      [] msgType = MsgTypeUpdateDataRequest -> handleUpdateDataRequest(h, db, data, fail)
      [] msgType = MsgTypeDownloadRequest   -> handleDownloadRequest(h, db, data, fail)
      [] OTHER -> {Outcome(sendError(h, "Unknown message type"), <<>>, db)}

\* One iteration of the read loop of Handle in which conn.Read fails
HandleReadError(h, db) ==
    [h |-> h, out |-> <<>>, calls |-> <<>>, db |-> db, closed |-> TRUE]

\* Handle without the test n < 10: every read goes to DeserializeMessage
HandleRead_NoLengthTest(h, db, data, fail) ==
    LET m == DeserializeMessage(data)
    IN  IF m.err
        THEN {Outcome(sendError(h, "Invalid message format"), <<>>, db)}
        ELSE handleMessage(h, db, m.header.Type, m.payload, fail)

\* One iteration of the read loop of Handle on the n bytes `data` that
\* conn.Read returned; fail = k makes the k-th gateway call report an error.
HandleRead(h, db, data, fail) ==
    IF Len(data) < HeaderLen
    THEN {Outcome(sendError(h, "Message too short"), <<>>, db)}
    ELSE LET m == DeserializeMessage(data)
         IN  IF m.err
             THEN {Outcome(sendError(h, "Invalid message format"), <<>>, db)}
             ELSE handleMessage(h, db, m.header.Type, m.payload, fail)

\* ------------------------------------------------------------------ inputs
\* what clients put on the wire
BadJSON == <<LBrace>>

SaveFields   == <<KType, DataTypeLoginPassword, KName, 1, KData, 1, KMetadata, 1>>
UpdateFields == <<KType, DataTypeText, KName, 2, KData, 2, KMetadata, 2>>

CredPayloads ==
    {Marshal(<<KUsername, u, KPassword, p>>) : u \in Usernames, p \in Passwords}

ItemIDPayloads ==
    {Marshal(<<KItemID, i>>) : i \in ItemIds \cup {0}} \cup {BadJSON}

Payloads(msgType) ==
    CASE msgType = MsgTypeAuthRequest       -> CredPayloads \cup {Marshal(<<>>), BadJSON}
      [] msgType = MsgTypeRegisterRequest   -> CredPayloads \cup {BadJSON}
      [] msgType = MsgTypeSyncRequest       ->
            {Marshal(<<KLastSync, t>>) : t \in (0..MaxClock) \cup {BadTime}}
                \cup {Marshal(<<>>), BadJSON}
      [] msgType = MsgTypeSaveDataRequest   -> {Marshal(SaveFields), BadJSON}
      [] msgType = MsgTypeUpdateDataRequest ->
            {Marshal(<<KItemID, i>> \o UpdateFields) : i \in ItemIds \cup {0}}
                \cup {BadJSON}
      [] msgType \in {MsgTypeDataRequest, MsgTypeDeleteDataRequest,
                      MsgTypeDownloadRequest} -> ItemIDPayloads
      [] OTHER -> {Marshal(<<KItemID, 1>>)}

\* a frame as a client library writes it, with the version byte it chose
ClientFrame(msgType, version, id, payload) ==
    <<msgType, version>> \o SubSeq(SerializeMessage(msgType, id, payload), 3,
                                   HeaderLen + Len(payload))

\* the reads that start with a header of type msgType: a whole frame of the
\* protocol version for every payload, one whole frame of another version,
\* and one frame whose last payload byte has not arrived
Reads(msgType) ==
    LET some == CHOOSE p \in Payloads(msgType) : WellFormed(p) /\ Len(p) > 2
        f    == ClientFrame(msgType, ProtocolVersion, 7, some)
    IN  {ClientFrame(msgType, ProtocolVersion, 7, p) : p \in Payloads(msgType)}
            \cup {ClientFrame(msgType, ProtocolVersion + 1, 7, some)}
            \cup {SubSeq(f, 1, Len(f) - 1)}

\* type codes handleMessage has no case for
OtherTypes == {MsgTypeAuthResponse, MsgTypeError, 32}

RequestTypes ==
    {MsgTypeAuthRequest, MsgTypeRegisterRequest, MsgTypeSyncRequest,
     MsgTypeDataRequest, MsgTypeSaveDataRequest, MsgTypeDeleteDataRequest,
     MsgTypeUpdateDataRequest, MsgTypeDownloadRequest}

ReadsOf == [t \in RequestTypes \cup OtherTypes |-> Reads(t)]

\* fewer than HeaderLen bytes
ShortReads == {<<>>, <<MsgTypeAuthRequest, ProtocolVersion, 0>>}

\* which gateway call of a request the database may fail
Fails(msgType) ==
    IF msgType = MsgTypeAuthRequest THEN 0..2
    ELSE IF msgType \in RequestTypes THEN 0..1
    ELSE {0}

\* every read together with every gateway failure it can meet
Inputs ==
    UNION {ReadsOf[t] \X Fails(t) : t \in RequestTypes \cup OtherTypes}
        \cup (ShortReads \X {0})

\* ----------------------------------------------------------------- actions
\* Server.Start: Accept returns a connection, NewClientHandler,
\* go handler.Handle()
Accept ==
    /\ listening
    /\ accepted < NumConns
    /\ accepted' = accepted + 1
    /\ handlers' = handlers (+) SetToBag({NewClientHandler})
    /\ UNCHANGED <<users, userSeq, items, listening, written,
                   loopVars, codecVars, cryptoVars, clientVars, sendVars, migrationVars>>

\* Start that returns the error of Accept: the deferred listener.Close runs
AfterAcceptError_Returns(l) == FALSE

\* if err != nil { log.Printf(...); continue }
AfterAcceptError(l) == l

\* Server.Start: Accept returns an error
AcceptError ==
    /\ listening
    /\ listening' = AfterAcceptError(listening)
    /\ UNCHANGED <<users, userSeq, items, handlers, accepted, written,
                   loopVars, codecVars, cryptoVars, clientVars, sendVars, migrationVars>>

\* the effect of one iteration of the read loop of handler h: when Handle
\* returns the handler is gone
Apply(h, r) ==
    /\ handlers' = IF r.closed THEN handlers (-) SetToBag({h})
                   ELSE (handlers (-) SetToBag({h})) (+) SetToBag({r.h})
    /\ written' = written + Len(r.out)
    /\ users' = r.db.users
    /\ userSeq' = r.db.userSeq
    /\ items' = r.db.items
    /\ UNCHANGED <<accepted, listening>>

\* the handlers whose Handle is running
Live == BagToSet(handlers)

\* Handle: conn.Read fails
ReadError ==
    /\ \E h \in Live : Apply(h, HandleReadError(h, DB))
    /\ UNCHANGED <<loopVars, codecVars, cryptoVars, clientVars, sendVars, migrationVars>>

\* Handle: conn.Read returns data
Handle(h, data, fail) ==
    /\ written < MaxMsgs
    /\ \E r \in HandleRead(h, DB, data, fail) : Apply(h, r)
    /\ UNCHANGED <<loopVars, codecVars, cryptoVars, clientVars, sendVars, migrationVars>>

\* a live handler reads a request of type msgType
Request(msgType) ==
    \E h \in Live : \E data \in ReadsOf[msgType], fail \in Fails(msgType) :
        Handle(h, data, fail)

ShortRead ==
    \E h \in Live : \E data \in ShortReads : Handle(h, data, 0)

AuthRequest ==
    /\ Live # {}
    /\ Request(MsgTypeAuthRequest)

RegisterRequest ==
    /\ Live # {}
    /\ Request(MsgTypeRegisterRequest)

SyncRequest ==
    /\ Live # {}
    /\ Request(MsgTypeSyncRequest)

DataRequest ==
    /\ Live # {}
    /\ Request(MsgTypeDataRequest)

SaveDataRequest ==
    /\ Live # {}
    /\ Request(MsgTypeSaveDataRequest)

DeleteDataRequest ==
    /\ Live # {}
    /\ Request(MsgTypeDeleteDataRequest)

UpdateDataRequest ==
    /\ Live # {}
    /\ Request(MsgTypeUpdateDataRequest)

DownloadRequest ==
    /\ Live # {}
    /\ Request(MsgTypeDownloadRequest)

OtherRequest ==
    /\ Live # {}
    /\ \E t \in OtherTypes : Request(t)

\* no connection is followed step by step: the variables of LoopSpec rest
LoopIdle ==
    /\ pc = "closed"
    /\ stream = <<>>
    /\ pos = 0
    /\ outbox = <<>>

\* nothing is encoded or decoded
NoCall == [Type |-> 0, MessageID |-> 0, Data |-> <<>>]

NotDecoded == [fn |-> "none"]

CodecIdle ==
    /\ call = NoCall
    /\ wire = <<>>
    /\ received = <<>>
    /\ decoded = NotDecoded

\* package crypto is not called
NotCalled == [fn |-> "none"]

CryptoIdle ==
    /\ made = NotCalled
    /\ used = NotCalled

\* NewClient: no connection, no token, no username
NewClient == [conn |-> 0, token |-> 0, username |-> 0]

\* no method of the Client has been called
NoReturns == [n |-> 0, dialed |-> 0, logins |-> 0,
              last |-> [fn |-> "none", args |-> <<>>, reply |-> <<>>,
                        before |-> NewClient, err |-> <<>>, dials |-> 0,
                        wrote |-> <<>>]]

ClientIdle ==
    /\ client = NewClient
    /\ returns = NoReturns
    /\ sessions = <<>>

\* no handler is inside sendResponse or sendError
SendIdle ==
    /\ messageMux = FALSE
    /\ stack = <<>>

\* RunMigrations has not run
NoRun == [n |-> 0, dir |-> {}, before |-> {}, fail |-> [step |-> "none", at |-> 0],
          err |-> FALSE, applied |-> <<>>]

MigrationsIdle ==
    /\ migrations = {}
    /\ schema = <<>>
    /\ ran = NoRun

\* NewServer opens the database earlier runs left: the first k usernames
\* registered in order with password 1, and no item or the first item id
\* stored at time 1 by the first user
SeededUsers(k) ==
    [u \in 1..k |-> [id |-> u, password_hash |-> HashPassword(1, 1).hash,
                     password_salt |-> HashPassword(1, 1).salt]]

SeededItems(k) ==
    IF k = 0 THEN {<<>>}
    ELSE {<<>>, StoreData([users |-> SeededUsers(k), userSeq |-> k + 1, items |-> <<>>],
                          1, NewDataItem(Marshal(SaveFields)), 1, 1, FALSE).db.items}

Init ==
    /\ \E k \in 0..MaxUsers :
          /\ users = SeededUsers(k)
          /\ userSeq = k + 1
          /\ items \in SeededItems(k)
    /\ handlers = EmptyBag
    /\ accepted = 0
    /\ listening = TRUE
    /\ written = 0
    /\ LoopIdle
    /\ CodecIdle
    /\ CryptoIdle
    /\ ClientIdle
    /\ SendIdle
    /\ MigrationsIdle

Next ==
    \/ Accept
    \/ AcceptError
    \/ ReadError
    \/ ShortRead
    \/ AuthRequest
    \/ RegisterRequest
    \/ SyncRequest
    \/ DataRequest
    \/ SaveDataRequest
    \/ DeleteDataRequest
    \/ UpdateDataRequest
    \/ DownloadRequest
    \/ OtherRequest

Spec == Init /\ [][Next]_vars

\* ------------------------------------------- one connection, step by step
\* LoopSpec follows the Handle of one connection through its loop: the
\* client's writes queue up in the socket, conn.Read returns them one at a
\* time, and the rest of the iteration (length test, DeserializeMessage,
\* handleMessage and the write of the response) is the step Dispatch.  The
\* connection may be a long-lived one whose handler has already written
\* 4294967295 frames; outbox holds what it writes from here on.

\* what the client writes, with the gateway failure the request will meet;
\* the requests carry the message ids 7, 0 and 4294967295
LoopInputs ==
    {<<ClientFrame(MsgTypeAuthRequest, ProtocolVersion, 7,
                   Marshal(<<KUsername, 1, KPassword, 1>>)), 0>>,
     <<ClientFrame(MsgTypeSyncRequest, ProtocolVersion, 0, Marshal(<<>>)), 0>>,
     <<ClientFrame(MsgTypeSyncRequest, ProtocolVersion, MaxUint32, Marshal(<<>>)), 1>>,
     <<ClientFrame(MsgTypeAuthResponse, ProtocolVersion, 7, Marshal(<<>>)), 0>>,
     <<<<>>, 0>>}

LoopInit ==
    /\ users = SeededUsers(1)
    /\ userSeq = 2
    /\ items \in SeededItems(1)
    /\ \E m \in {0, MaxUint32} :
          handlers = SetToBag({[NewClientHandler EXCEPT !.messageID = m]})
    /\ accepted = 1
    /\ listening = TRUE
    /\ written = 0
    /\ pc = "read"
    /\ stream = <<>>
    /\ pos = 0
    /\ outbox = <<>>
    /\ CodecIdle
    /\ CryptoIdle
    /\ ClientIdle
    /\ SendIdle
    /\ MigrationsIdle

\* the client writes a request to the connection
ClientWrite ==
    /\ pc # "closed"
    /\ Len(stream) < MaxReads
    /\ \E in \in LoopInputs : stream' = Append(stream, in)
    /\ UNCHANGED <<serverVars, pc, pos, outbox, codecVars, cryptoVars, clientVars, sendVars, migrationVars>>

\* Handle with go h.handleMessage(header.Type, payload): the loop is back at
\* conn.Read while the message is still being handled
AtRead_Concurrent(p) == p \in {"read", "dispatch"}

\* Handle is at conn.Read: the for loop gets there only when the iteration
\* before has returned from sendError or handleMessage
AtRead(p) == p = "read"

\* n, err := h.conn.Read(buffer) returns the next write of the client
ConnRead ==
    /\ AtRead(pc)
    /\ pos < Len(stream)
    /\ pos' = pos + 1
    /\ pc' = "dispatch"
    /\ UNCHANGED <<serverVars, stream, outbox, codecVars, cryptoVars, clientVars, sendVars, migrationVars>>

\* the rest of the iteration, on the bytes conn.Read returned
Dispatch ==
    /\ pc = "dispatch"
    /\ \E h \in Live : \E r \in HandleRead(h, DB, stream[pos][1], stream[pos][2]) :
          /\ Apply(h, r)
          /\ outbox' = outbox \o [k \in 1..Len(r.out) |-> [re |-> pos, frame |-> r.out[k]]]
    /\ pc' = "read"
    /\ UNCHANGED <<stream, pos, codecVars, cryptoVars, clientVars, sendVars, migrationVars>>

\* conn.Read fails: Handle returns and the deferred conn.Close runs
ConnReadError ==
    /\ pc = "read"
    /\ \E h \in Live : Apply(h, HandleReadError(h, DB))
    /\ pc' = "closed"
    /\ UNCHANGED <<stream, pos, outbox, codecVars, cryptoVars, clientVars, sendVars, migrationVars>>

LoopNext ==
    \/ ClientWrite
    \/ ConnRead
    \/ Dispatch
    \/ ConnReadError

LoopSpec == LoopInit /\ [][LoopNext]_vars

\* --------------------------------------------- a session over a full table
\* SyncSpec follows one connection that authenticates and synchronises
\* against the table user_data earlier runs left: any rows, each stored by
\* one of the first two registered users at any time.
SyncRows == 1..(MaxItems + 2)

SyncOwners == {1, 2}

SyncTables ==
    UNION {{[i \in ids |->
                StoreData([users |-> <<>>, userSeq |-> 1, items |-> <<>>],
                          f[i][1], NewDataItem(Marshal(SaveFields)), i, f[i][2],
                          FALSE).db.items[i]] :
             f \in [ids -> SyncOwners \X Times]} :
           ids \in SUBSET SyncRows}

SyncInit ==
    /\ users = SeededUsers(MaxUsers)
    /\ userSeq = MaxUsers + 1
    /\ items \in SyncTables
    /\ handlers = SetToBag({NewClientHandler})
    /\ accepted = 1
    /\ listening = TRUE
    /\ written = 0
    /\ LoopIdle
    /\ CodecIdle
    /\ CryptoIdle
    /\ ClientIdle
    /\ SendIdle
    /\ MigrationsIdle

SyncNext ==
    \/ AuthRequest
    \/ SyncRequest

SyncSpec == SyncInit /\ [][SyncNext]_vars

\* ------------------------------------------------ two sessions side by side
\* PairSpec: two connections are open against the database earlier runs
\* left, each of them new or authenticated by an earlier AuthRequest as one
\* of its users (the frame that answered it carried messageID 0); written
\* counts the frames written from then on.  Each step is one read of one of
\* the two.
SeededSessions(k) ==
    {NewClientHandler} \cup
        {[username |-> u, userID |-> SeededUsers(k)[u].id, messageID |-> 1] : u \in 1..k}

PairInit ==
    /\ \E k \in 0..MaxUsers :
          /\ users = SeededUsers(k)
          /\ userSeq = k + 1
          /\ items \in SeededItems(k)
          /\ \E a, b \in SeededSessions(k) :
                handlers = SetToBag({a}) (+) SetToBag({b})
    /\ accepted = 2
    /\ listening = TRUE
    /\ written = 0
    /\ LoopIdle
    /\ CodecIdle
    /\ CryptoIdle
    /\ ClientIdle
    /\ SendIdle
    /\ MigrationsIdle

PairNext ==
    \/ AuthRequest
    \/ RegisterRequest
    \/ SyncRequest
    \/ DataRequest
    \/ SaveDataRequest
    \/ UpdateDataRequest

PairSpec == PairInit /\ [][PairNext]_vars

\* ------------------------------------------------- the frame codec alone
\* CodecSpec hands SerializeMessage a type, a message id and a payload, lets
\* the frame reach the receiver byte by byte and applies DeserializeMessage
\* or DeserializeHeader to what has arrived.
CodecTypes == {0, MsgTypeAuthRequest, MsgTypeDownloadResponse, MsgTypeError}

\* message ids: 0, 1, 256, 2^31 - 1, 2^31 and 2^32 - 1
CodecIDs == {0, 1, 256, 2147483647, -2147483647 - 1, MaxUint32}

\* a payload whose length does not fit one byte, filled as TestEdgeCases
\* fills its own
LargeData == [i \in 1..LargeLen |-> (i - 1) % 256]

CodecPayloads ==
    UNION {[1..n -> {0, LBrace, 255}] : n \in 0..MaxPayload} \cup {LargeData}

CodecInit ==
    /\ users = <<>>
    /\ userSeq = 1
    /\ items = <<>>
    /\ handlers = EmptyBag
    /\ accepted = 0
    /\ listening = FALSE
    /\ written = 0
    /\ LoopIdle
    /\ CodecIdle
    /\ CryptoIdle
    /\ ClientIdle
    /\ SendIdle
    /\ MigrationsIdle

\* the sender encodes its frame
Encode ==
    /\ wire = <<>>
    /\ \E t \in CodecTypes, id \in CodecIDs, p \in CodecPayloads :
          /\ call' = [Type |-> t, MessageID |-> id, Data |-> p]
          /\ wire' = SerializeMessage(t, id, p)
    /\ received' = <<>>
    /\ decoded' = NotDecoded
    /\ UNCHANGED <<serverVars, loopVars, cryptoVars, clientVars, sendVars, migrationVars>>

\* one more byte of the frame reaches the receiver
Receive ==
    /\ Len(received) < Len(wire)
    /\ received' = SubSeq(wire, 1, Len(received) + 1)
    /\ decoded' = NotDecoded
    /\ UNCHANGED <<serverVars, loopVars, cryptoVars, clientVars, sendVars, migrationVars, call, wire>>

\* the receiver decodes what it has
Decode ==
    /\ decoded' = [fn |-> "DeserializeMessage", res |-> DeserializeMessage(received)]
    /\ UNCHANGED <<serverVars, loopVars, cryptoVars, clientVars, sendVars, migrationVars, call, wire, received>>

DecodeHeader ==
    /\ decoded' = [fn |-> "DeserializeHeader", res |-> DeserializeHeader(received)]
    /\ UNCHANGED <<serverVars, loopVars, cryptoVars, clientVars, sendVars, migrationVars, call, wire, received>>

CodecNext ==
    \/ Encode
    \/ Receive
    \/ Decode
    \/ DecodeHeader

CodecSpec == CodecInit /\ [][CodecNext]_vars

\* ------------------------------------------------- package crypto, alone
\* CryptoSpec calls Encrypt or HashPassword once and then hands what was
\* returned, whole, cut short or with one byte changed, or something else
\* altogether, to Decrypt or VerifyPassword.
MaxPlain == 2    \* bytes of the plaintexts handed to Encrypt

PlainBytes == {0, 255}

Plaintexts == UNION {[1..n -> PlainBytes] : n \in 0..MaxPlain}

Key32(a, b) == [i \in 1..KeySize |-> IF i < KeySize THEN a ELSE b]

\* []byte("short")
ShortKey == <<115, 104, 111, 114, 116>>

Keys == {Key32(1, 1), Key32(1, 2), Key32(2, 1), ShortKey}

Nonces == {[i \in 1..NonceSize |-> n] : n \in {0, 7}}

Truncations(c) == {SubSeq(c, 1, n) : n \in 0..(Len(c) - 1)}

Tampered(c) == {[c EXCEPT ![i] = (@ + 1) % 256] : i \in 1..Len(c)}

\* []byte("corrupted encrypted data") and two strings long enough to hold a
\* nonce and a tag
Arbitrary ==
    {[i \in 1..n |-> b] : n \in {24, NonceSize + TagSize, NonceSize + TagSize + 1},
                          b \in {0, 99}}

Handed(c) == {c} \cup Truncations(c) \cup Tampered(c) \cup Arbitrary

CryptoPasswords == {0, 1, 2}

\* the 16 bytes rand.Read fills in stand as one
SaltBytes == {<<1>>, <<2>>}

StoredHashes(record) ==
    {record.hash, EmptyString, NotBase64}
        \cup {EncodeToString(Pbkdf2Key(p, <<>>)) : p \in CryptoPasswords}

StoredSalts(record) ==
    {record.salt, EmptyString, NotBase64} \cup {EncodeToString(s) : s \in SaltBytes}

CryptoInit ==
    /\ users = <<>>
    /\ userSeq = 1
    /\ items = <<>>
    /\ handlers = EmptyBag
    /\ accepted = 0
    /\ listening = FALSE
    /\ written = 0
    /\ LoopIdle
    /\ CodecIdle
    /\ CryptoIdle
    /\ ClientIdle
    /\ SendIdle
    /\ MigrationsIdle

EncryptCall ==
    /\ made = NotCalled
    /\ \E data \in Plaintexts, key \in Keys, nonce \in Nonces, randErr \in BOOLEAN :
          made' = [fn |-> "Encrypt", data |-> data, key |-> key,
                   ret |-> Encrypt(data, key, nonce, randErr)]
    /\ UNCHANGED <<serverVars, loopVars, codecVars, clientVars, sendVars, migrationVars, used>>

DecryptCall ==
    /\ made.fn = "Encrypt"
    /\ used = NotCalled
    /\ \E data \in Handed(made.ret.out), key \in Keys :
          used' = [fn |-> "Decrypt", data |-> data, key |-> key,
                   ret |-> Decrypt(data, key)]
    /\ UNCHANGED <<serverVars, loopVars, codecVars, clientVars, sendVars, migrationVars, made>>

HashPasswordCall ==
    /\ made = NotCalled
    /\ \E password \in CryptoPasswords, salt \in SaltBytes :
          made' = [fn |-> "HashPassword", password |-> password,
                   ret |-> HashPassword(password, salt)]
    /\ UNCHANGED <<serverVars, loopVars, codecVars, clientVars, sendVars, migrationVars, used>>

VerifyPasswordCall ==
    /\ made.fn = "HashPassword"
    /\ used = NotCalled
    /\ \E password \in CryptoPasswords,
          storedHash \in StoredHashes(made.ret), storedSalt \in StoredSalts(made.ret) :
          used' = [fn |-> "VerifyPassword", password |-> password,
                   storedHash |-> storedHash, storedSalt |-> storedSalt,
                   ret |-> VerifyPassword(password, storedHash, storedSalt)]
    /\ UNCHANGED <<serverVars, loopVars, codecVars, clientVars, sendVars, migrationVars, made>>

CryptoNext ==
    \/ EncryptCall
    \/ DecryptCall
    \/ HashPasswordCall
    \/ VerifyPasswordCall

CryptoSpec == CryptoInit /\ [][CryptoNext]_vars

\* ------------------------------------------------------------- the client
\* A Client holds one connection and the token and username of its last
\* successful Login.  What the network and the server do to one call is
\* drawn with the call: whether net.Dial fails, whether conn.Write fails,
\* and the bytes that arrive on the connection before it ends.
KSuccess == 9
KToken   == 10
KMessage == 11
KCode    == 12
KItems   == 13
KItem    == 14

NoError == <<>>

\* fmt.Errorf: the format and the value put into it (0 where the value is
\* an error of the network or of encoding/json, or there is none)
Errorf(format, arg) == <<format, arg>>

DeserializeAuthResponse(data) ==
    IF WellFormed(data)
    THEN [err |-> FALSE, Success |-> Field(data, KSuccess) = 1,
          Token |-> Field(data, KToken)]
    ELSE [err |-> TRUE, Success |-> FALSE, Token |-> 0]

DeserializeRegisterResponse(data) ==
    IF WellFormed(data)
    THEN [err |-> FALSE, Success |-> Field(data, KSuccess) = 1,
          Message |-> Field(data, KMessage)]
    ELSE [err |-> TRUE, Success |-> FALSE, Message |-> 0]

DeserializeSyncResponse(data) ==
    IF WellFormed(data)
    THEN [err |-> FALSE, Items |-> Field(data, KItems)]
    ELSE [err |-> TRUE, Items |-> 0]

\* json.Unmarshal into a DataResponse
UnmarshalDataResponse(data) ==
    IF WellFormed(data)
    THEN [err |-> FALSE, Item |-> Field(data, KItem)]
    ELSE [err |-> TRUE, Item |-> 0]

DeserializeSaveDataResponse(data) ==
    IF WellFormed(data)
    THEN [err |-> FALSE, Success |-> Field(data, KSuccess) = 1,
          Message |-> Field(data, KMessage)]
    ELSE [err |-> TRUE, Success |-> FALSE, Message |-> 0]

DeserializeDeleteDataResponse(data) ==
    IF WellFormed(data)
    THEN [err |-> FALSE, Success |-> Field(data, KSuccess) = 1,
          Message |-> Field(data, KMessage)]
    ELSE [err |-> TRUE, Success |-> FALSE, Message |-> 0]

DeserializeUpdateDataResponse(data) ==
    IF WellFormed(data)
    THEN [err |-> FALSE, Success |-> Field(data, KSuccess) = 1,
          Message |-> Field(data, KMessage)]
    ELSE [err |-> TRUE, Success |-> FALSE, Message |-> 0]

DeserializeDownloadResponse(data) ==
    IF WellFormed(data)
    THEN [err |-> FALSE, Success |-> Field(data, KSuccess) = 1,
          Message |-> Field(data, KMessage), Data |-> Field(data, KData)]
    ELSE [err |-> TRUE, Success |-> FALSE, Message |-> 0, Data |-> 0]

\* DeserializeErrorResponse that loses the Message
DeserializeErrorResponse_NoMessage(data) ==
    IF WellFormed(data)
    THEN [err |-> FALSE, Code |-> Field(data, KCode), Message |-> 0]
    ELSE [err |-> TRUE, Code |-> 0, Message |-> 0]

DeserializeErrorResponse(data) ==
    IF WellFormed(data)
    THEN [err |-> FALSE, Code |-> Field(data, KCode), Message |-> Field(data, KMessage)]
    ELSE [err |-> TRUE, Code |-> 0, Message |-> 0]

SerializeNewDataItem(item) ==
    <<KType, item.Type, KName, item.Name, KData, item.Data, KMetadata, item.Metadata>>

IsAuthenticated(c) ==
    c.token # 0 /\ c.username # 0

\* what a method returns and what it did on the way: the Client after it,
\* the net.Dial calls it made and the frames it handed to conn.Write
Return(c, dials, wrote, err, val) ==
    [c |-> c, dials |-> dials, wrote |-> wrote, err |-> err, val |-> val]

Connect(c, net) ==
    IF net.dialErr
    THEN Return(c, 1, <<>>, Errorf("failed to connect to server: %w", 0), 0)
    ELSE Return([c EXCEPT !.conn = net.conn], 1, <<>>, NoError, 0)

\* sendAndReceive that hands the payload of an Error frame to its caller
sendAndReceive_ErrorAsPayload(c, msgType, data, net) ==
    LET connected == IF c.conn = 0 THEN Connect(c, net)
                     ELSE Return(c, 0, <<>>, NoError, 0)
        message   == SerializeMessage(msgType, 1, data)
        failed(wrote, err) == Return(connected.c, connected.dials, wrote, err, <<>>)
        header    == DeserializeHeader(SubSeq(net.reply, 1, HeaderLen)).header
        rest      == SubSeq(net.reply, HeaderLen + 1, Len(net.reply))
    IN  IF connected.err # NoError
        THEN failed(<<>>, connected.err)
        ELSE IF net.writeErr
        THEN failed(<<message>>, Errorf("failed to send message: %w", 0))
        ELSE IF Len(net.reply) < HeaderLen
        THEN failed(<<message>>, Errorf("failed to read header: %w", 0))
        ELSE IF header.Length < 0 \/ Len(rest) < header.Length
        THEN failed(<<message>>, Errorf("failed to read payload: %w", 0))
        ELSE Return(connected.c, connected.dials, <<message>>, NoError,
                    SubSeq(rest, 1, header.Length))

\* io.ReadFull fails when the connection ends before the buffer is full; a
\* Length of 2^31 or more is larger than anything that arrives
sendAndReceive(c, msgType, data, net) ==
    LET connected == IF c.conn = 0 THEN Connect(c, net)
                     ELSE Return(c, 0, <<>>, NoError, 0)
        message   == SerializeMessage(msgType, 1, data)
        failed(wrote, err) == Return(connected.c, connected.dials, wrote, err, <<>>)
        parsed    == DeserializeHeader(SubSeq(net.reply, 1, HeaderLen))
        header    == parsed.header
        rest      == SubSeq(net.reply, HeaderLen + 1, Len(net.reply))
        payload   == SubSeq(rest, 1, header.Length)
        errorResp == DeserializeErrorResponse(payload)
    IN  IF connected.err # NoError
        THEN failed(<<>>, connected.err)
        ELSE IF net.writeErr
        THEN failed(<<message>>, Errorf("failed to send message: %w", 0))
        ELSE IF Len(net.reply) < HeaderLen
        THEN failed(<<message>>, Errorf("failed to read header: %w", 0))
        ELSE IF parsed.err
        THEN failed(<<message>>, Errorf("failed to parse header: %w", 0))
        ELSE IF header.Length < 0 \/ Len(rest) < header.Length
        THEN failed(<<message>>, Errorf("failed to read payload: %w", 0))
        ELSE IF header.Type = MsgTypeError /\ errorResp.err
        THEN failed(<<message>>, Errorf("error response: failed to parse: %w", 0))
        ELSE IF header.Type = MsgTypeError
        THEN failed(<<message>>, Errorf("server error: %s", errorResp.Message))
        ELSE Return(connected.c, connected.dials, <<message>>, NoError, payload)

FailedToParse(r) ==
    [r EXCEPT !.err = Errorf("failed to parse response: %w", 0), !.val = 0]

NotAuthenticated(c) ==
    Return(c, 0, <<>>, Errorf("not authenticated", 0), 0)

Register(c, username, password, net) ==
    LET data == Marshal(<<KUsername, username, KPassword, password>>)
        r    == sendAndReceive(c, MsgTypeRegisterRequest, data, net)
        resp == DeserializeRegisterResponse(r.val)
    IN  IF r.err # NoError THEN r
        ELSE IF resp.err THEN FailedToParse(r)
        ELSE IF ~resp.Success
        THEN [r EXCEPT !.err = Errorf("registration failed: %s", resp.Message),
                       !.val = 0]
        ELSE [r EXCEPT !.val = 0]

\* Login that takes the username before it has looked at the response
Login_NameFirst(c, username, password, net) ==
    LET data == Marshal(<<KUsername, username, KPassword, password>>)
        r    == sendAndReceive([c EXCEPT !.username = username],
                               MsgTypeAuthRequest, data, net)
        resp == DeserializeAuthResponse(r.val)
    IN  IF r.err # NoError THEN r
        ELSE IF resp.err THEN FailedToParse(r)
        ELSE IF ~resp.Success
        THEN [r EXCEPT !.err = Errorf("authentication failed", 0), !.val = 0]
        ELSE [r EXCEPT !.c = [r.c EXCEPT !.token = resp.Token], !.val = 0]

Login(c, username, password, net) ==
    LET data == Marshal(<<KUsername, username, KPassword, password>>)
        r    == sendAndReceive(c, MsgTypeAuthRequest, data, net)
        resp == DeserializeAuthResponse(r.val)
    IN  IF r.err # NoError THEN r
        ELSE IF resp.err THEN FailedToParse(r)
        ELSE IF ~resp.Success
        THEN [r EXCEPT !.err = Errorf("authentication failed", 0), !.val = 0]
        ELSE [r EXCEPT !.c = [r.c EXCEPT !.token = resp.Token, !.username = username],
                       !.val = 0]

\* SyncData that sends its request whether or not the Client is authenticated
SyncData_NoGuard(c, lastSync, net) ==
    LET r    == sendAndReceive(c, MsgTypeSyncRequest, Marshal(<<KLastSync, lastSync>>), net)
        resp == DeserializeSyncResponse(r.val)
    IN  IF r.err # NoError THEN r
        ELSE IF resp.err THEN FailedToParse(r)
        ELSE [r EXCEPT !.val = resp.Items]

SyncData(c, lastSync, net) ==
    IF ~IsAuthenticated(c) THEN NotAuthenticated(c)
    ELSE LET r    == sendAndReceive(c, MsgTypeSyncRequest,
                                    Marshal(<<KLastSync, lastSync>>), net)
             resp == DeserializeSyncResponse(r.val)
         IN  IF r.err # NoError THEN r
             ELSE IF resp.err THEN FailedToParse(r)
             ELSE [r EXCEPT !.val = resp.Items]

ClientGetData(c, itemID, net) ==
    IF ~IsAuthenticated(c) THEN NotAuthenticated(c)
    ELSE LET r    == sendAndReceive(c, MsgTypeDataRequest, Marshal(<<KItemID, itemID>>), net)
             resp == UnmarshalDataResponse(r.val)
         IN  IF r.err # NoError THEN r
             ELSE IF resp.err THEN FailedToParse(r)
             ELSE [r EXCEPT !.val = resp.Item]

SaveData(c, item, net) ==
    IF ~IsAuthenticated(c) THEN NotAuthenticated(c)
    ELSE LET r    == sendAndReceive(c, MsgTypeSaveDataRequest,
                                    Marshal(SerializeNewDataItem(item)), net)
             resp == DeserializeSaveDataResponse(r.val)
         IN  IF r.err # NoError THEN r
             ELSE IF resp.err THEN FailedToParse(r)
             ELSE IF ~resp.Success
             THEN [r EXCEPT !.err = Errorf("failed to save data: %s", resp.Message),
                            !.val = 0]
             ELSE [r EXCEPT !.val = 0]

ClientDeleteData(c, itemID, net) ==
    IF ~IsAuthenticated(c) THEN NotAuthenticated(c)
    ELSE LET r    == sendAndReceive(c, MsgTypeDeleteDataRequest,
                                    Marshal(<<KItemID, itemID>>), net)
             resp == DeserializeDeleteDataResponse(r.val)
         IN  IF r.err # NoError THEN r
             ELSE IF resp.err THEN FailedToParse(r)
             ELSE IF ~resp.Success
             THEN [r EXCEPT !.err = Errorf("failed to delete data: %s", resp.Message),
                            !.val = 0]
             ELSE [r EXCEPT !.val = 0]

ClientUpdateData(c, itemID, item, net) ==
    IF ~IsAuthenticated(c) THEN NotAuthenticated(c)
    ELSE LET r    == sendAndReceive(c, MsgTypeUpdateDataRequest,
                                    Marshal(<<KItemID, itemID>> \o SerializeNewDataItem(item)),
                                    net)
             resp == DeserializeUpdateDataResponse(r.val)
         IN  IF r.err # NoError THEN r
             ELSE IF resp.err THEN FailedToParse(r)
             ELSE IF ~resp.Success
             THEN [r EXCEPT !.err = Errorf("failed to update data: %s", resp.Message),
                            !.val = 0]
             ELSE [r EXCEPT !.val = 0]

DownloadData(c, itemID, net) ==
    IF ~IsAuthenticated(c) THEN NotAuthenticated(c)
    ELSE LET r    == sendAndReceive(c, MsgTypeDownloadRequest,
                                    Marshal(<<KItemID, itemID>>), net)
             resp == DeserializeDownloadResponse(r.val)
         IN  IF r.err # NoError THEN r
             ELSE IF resp.err THEN FailedToParse(r)
             ELSE IF ~resp.Success
             THEN [r EXCEPT !.err = Errorf("failed to download data: %s", resp.Message),
                            !.val = 0]
             ELSE [r EXCEPT !.val = resp.Data]

\* ClientSpec: one Client from NewClient on, its methods called in any
\* order against a server that answers anything.
MaxCalls == 2

\* the empty username and a registered one
ClientNames == {0, 1}

\* a frame a server writes: a login accepted with the token or with no
\* token, a login refused, an error, the answers to the other requests
ReplyBodies ==
    { <<MsgTypeAuthResponse, Marshal(<<KSuccess, 1, KToken, 1>>)>>,
      <<MsgTypeAuthResponse, Marshal(<<KSuccess, 1, KToken, 0>>)>>,
      <<MsgTypeAuthResponse, Marshal(<<KSuccess, 0, KToken, 0>>)>>,
      <<MsgTypeAuthResponse, BadJSON>>,
      <<MsgTypeError, Marshal(<<KCode, 1, KMessage, 1>>)>>,
      <<MsgTypeError, Marshal(<<KCode, 1, KMessage, 2>>)>>,
      <<MsgTypeError, BadJSON>>,
      <<MsgTypeSyncResponse, Marshal(<<KItems, 1>>)>>,
      <<MsgTypeDataResponse, Marshal(<<KItem, 1>>)>>,
      <<MsgTypeSaveDataResponse, Marshal(<<KSuccess, 1, KMessage, 1>>)>>,
      <<MsgTypeRegisterResponse, Marshal(<<KSuccess, 0, KMessage, 1>>)>>,
      <<MsgTypeDownloadResponse, Marshal(<<KSuccess, 1, KData, 1>>)>> }

\* what arrives before the connection ends: nothing, a whole frame, or a
\* frame cut inside its header or inside its payload
Replies ==
    LET whole == {SerializeMessage(f[1], 1, f[2]) : f \in ReplyBodies}
    IN  {<<>>} \cup whole
            \cup {SubSeq(w, 1, HeaderLen - 1) : w \in whole}
            \cup {SubSeq(w, 1, Len(w) - 1) : w \in whole}

Nets ==
    [dialErr : BOOLEAN, writeErr : BOOLEAN, reply : Replies, conn : {returns.dialed + 1}]

ClientItems ==
    {[Type |-> DataTypeText, Name |-> 1, Data |-> 1, Metadata |-> 0]}

ClientInit ==
    /\ users = <<>>
    /\ userSeq = 1
    /\ items = <<>>
    /\ handlers = EmptyBag
    /\ accepted = 0
    /\ listening = FALSE
    /\ written = 0
    /\ LoopIdle
    /\ CodecIdle
    /\ CryptoIdle
    /\ ClientIdle
    /\ SendIdle
    /\ MigrationsIdle

\* a method of the Client is called and returns r
\* the last call is kept with its arguments, the Client it was made on,
\* and the bytes that were there for it to read if its request was written
Called(fn, args, net, r) ==
    /\ client' = r.c
    /\ returns' = [n      |-> returns.n + 1,
                   dialed |-> returns.dialed + r.dials,
                   logins |-> returns.logins
                                + (IF fn = "Login" /\ r.err = NoError THEN 1 ELSE 0),
                   last   |-> [fn |-> fn, args |-> args,
                               reply |-> IF r.wrote # <<>> /\ ~net.writeErr
                                         THEN net.reply ELSE <<>>,
                               before |-> client, err |-> r.err,
                               dials |-> r.dials, wrote |-> r.wrote]]
    /\ UNCHANGED <<serverVars, loopVars, codecVars, cryptoVars, sendVars, migrationVars,
                   sessions>>

RegisterCall ==
    /\ returns.n < MaxCalls
    /\ \E username \in ClientNames, password \in Passwords, net \in Nets :
          Called("Register", <<username, password>>, net,
                 Register(client, username, password, net))

LoginCall ==
    /\ returns.n < MaxCalls
    /\ \E username \in ClientNames, password \in Passwords, net \in Nets :
          Called("Login", <<username, password>>, net, Login(client, username, password, net))

SyncDataCall ==
    /\ returns.n < MaxCalls
    /\ \E lastSync \in {0, 1}, net \in Nets :
          Called("SyncData", <<lastSync>>, net, SyncData(client, lastSync, net))

GetDataCall ==
    /\ returns.n < MaxCalls
    /\ \E itemID \in {1}, net \in Nets :
          Called("GetData", <<itemID>>, net, ClientGetData(client, itemID, net))

SaveDataCall ==
    /\ returns.n < MaxCalls
    /\ \E item \in ClientItems, net \in Nets :
          Called("SaveData", <<item>>, net, SaveData(client, item, net))

DeleteDataCall ==
    /\ returns.n < MaxCalls
    /\ \E itemID \in {1}, net \in Nets :
          Called("DeleteData", <<itemID>>, net, ClientDeleteData(client, itemID, net))

UpdateDataCall ==
    /\ returns.n < MaxCalls
    /\ \E itemID \in {1}, item \in ClientItems, net \in Nets :
          Called("UpdateData", <<itemID, item>>, net,
                 ClientUpdateData(client, itemID, item, net))

DownloadDataCall ==
    /\ returns.n < MaxCalls
    /\ \E itemID \in {1}, net \in Nets :
          Called("DownloadData", <<itemID>>, net, DownloadData(client, itemID, net))

ClientNext ==
    \/ RegisterCall
    \/ LoginCall
    \/ SyncDataCall
    \/ GetDataCall
    \/ SaveDataCall
    \/ DeleteDataCall
    \/ UpdateDataCall
    \/ DownloadDataCall

ClientSpec == ClientInit /\ [][ClientNext]_vars

\* ------------------------------------------------------------------ SendSpec
\* SendSpec follows the goroutine of one handler statement by statement
\* through sendResponse and sendError: h.messageMux.Lock(), the
\* serialization, the write with h.messageID++, and the deferred Unlock.
\* The handler's goroutine is the only one that uses its messageMux, and a
\* sync.Mutex that is locked blocks every Lock, also one by the goroutine
\* that holds it.
MaxSends == 3

\* the types sendResponse has a case for
ResponseTypes ==
    {MsgTypeAuthResponse, MsgTypeRegisterResponse, MsgTypeSyncResponse,
     MsgTypeDataResponse, MsgTypeSaveDataResponse, MsgTypeDeleteDataResponse,
     MsgTypeUpdateDataResponse, MsgTypeDownloadResponse}

\* a call of sendResponse or sendError at its first statement; base is the
\* number of frames written before it
Frame(fn, msgType, message, serr) ==
    [fn |-> fn, pc |-> "Lock", msgType |-> msgType, message |-> message,
     serr |-> serr, base |-> written]

Top == stack[Len(stack)]

Goto(label) == [stack EXCEPT ![Len(stack)].pc = label]

SendInit ==
    /\ users = <<>>
    /\ userSeq = 1
    /\ items = <<>>
    /\ handlers = SetToBag({NewClientHandler})
    /\ accepted = 1
    /\ listening = TRUE
    /\ written = 0
    /\ LoopIdle
    /\ CodecIdle
    /\ CryptoIdle
    /\ ClientIdle
    /\ SendIdle
    /\ MigrationsIdle

\* a handle... function calls h.sendResponse(msgType, resp); serr says
\* whether the serializer of resp will return an error
CallSendResponse ==
    /\ stack = <<>>
    /\ written < MaxSends
    /\ \E msgType \in ResponseTypes, serr \in BOOLEAN :
          stack' = <<Frame("sendResponse", msgType, "", serr)>>
    /\ UNCHANGED <<serverVars, loopVars, codecVars, cryptoVars, clientVars, messageMux,
                   migrationVars>>

\* Handle, handleMessage or a handle... function calls h.sendError(message)
CallSendError ==
    /\ stack = <<>>
    /\ written < MaxSends
    /\ \E message \in {"Message too short", "Not authenticated"} :
          stack' = <<Frame("sendError", MsgTypeError, message, FALSE)>>
    /\ UNCHANGED <<serverVars, loopVars, codecVars, cryptoVars, clientVars, messageMux,
                   migrationVars>>

\* h.messageMux.Lock() returns once the mutex is not locked
Lock ==
    /\ stack # <<>>
    /\ Top.pc = "Lock"
    /\ ~messageMux
    /\ messageMux' = TRUE
    /\ stack' = Goto("serialize")
    /\ UNCHANGED <<serverVars, loopVars, codecVars, cryptoVars, clientVars, migrationVars>>

\* sendResponse: the serializer returned an error, h.sendError("Failed to
\* serialize response") is called and then sendResponse returns
SerializeFails ==
    /\ stack # <<>>
    /\ Top.pc = "serialize"
    /\ Top.serr
    /\ stack' = Append(Goto("return"),
                       Frame("sendError", MsgTypeError, "Failed to serialize response",
                             FALSE))
    /\ UNCHANGED <<serverVars, loopVars, codecVars, cryptoVars, clientVars, messageMux,
                   migrationVars>>

\* sendResponse / sendError: SerializeMessage with h.messageID, h.messageID++
\* and conn.Write
Write ==
    /\ stack # <<>>
    /\ Top.pc = "serialize"
    /\ ~Top.serr
    /\ \E h \in Live :
          handlers' = SetToBag({IF Top.fn = "sendError"
                                THEN sendError(h, Top.message).h
                                ELSE sendResponse(h, Top.msgType, <<>>).h})
    /\ written' = written + 1
    /\ stack' = Goto("return")
    /\ UNCHANGED <<users, userSeq, items, accepted, listening, loopVars, codecVars,
                   cryptoVars, clientVars, messageMux, migrationVars>>

\* the function returns: the deferred h.messageMux.Unlock() runs
Return_ ==
    /\ stack # <<>>
    /\ Top.pc = "return"
    /\ messageMux' = FALSE
    /\ stack' = SubSeq(stack, 1, Len(stack) - 1)
    /\ UNCHANGED <<serverVars, loopVars, codecVars, cryptoVars, clientVars, migrationVars>>

SendNext ==
    \/ CallSendResponse
    \/ CallSendError
    \/ Lock
    \/ SerializeFails
    \/ Write
    \/ Return_

SendSpec == SendInit /\ [][SendNext]_vars

\* --------------------------------------------------------------- MigrateSpec
\* MigrateSpec runs RunMigrations up to MaxRuns times against one database.
\* Every run finds some set of files in the migrations directory and may
\* meet one failure: of one of its three first calls, or of one step of the
\* applyMigration of the first or second migration it applies.  A file name is the
\* sequence of its bytes up to the extension, and its last element stands
\* for the extension.
MaxFiles == 3
MaxRuns  == 2

DotSql == 46    \* ".sql"
DotMd  == 100   \* ".md"

\* "001.sql", "000002.sql", "10.sql", "1_a.sql", "2.sql"
FileNames ==
    << <<48, 48, 49, DotSql>>, <<48, 48, 48, 48, 48, 50, DotSql>>, <<49, 48, DotSql>>,
       <<49, 95, 97, DotSql>>, <<50, DotSql>> >>

\* what ioutil.ReadDir may return: some of the first MaxFiles of the files
\* above, with a file that is no .sql file ("0.md") and a directory whose
\* name ends in .sql ("00.sql")
Listings ==
    {{[name |-> FileNames[k], isDir |-> FALSE] : k \in present}
        \cup {[name |-> <<48, DotMd>>, isDir |-> FALSE],
              [name |-> <<48, 48, DotSql>>, isDir |-> TRUE]} :
     present \in SUBSET (1..MaxFiles)}

\* a < b for Go strings: the bytes are compared from the left, and a proper
\* prefix is less
StringLess(a, b) ==
    \E k \in 1..(Len(a) + 1) :
        /\ k <= Len(b)
        /\ \A i \in 1..(k - 1) : a[i] = b[i]
        /\ k = Len(a) + 1 \/ a[k] < b[k]

\* sort.Strings
RECURSIVE SortStrings(_)
SortStrings(S) ==
    IF S = {} THEN <<>>
    ELSE LET least == CHOOSE x \in S : \A y \in S \ {x} : StringLess(x, y)
         IN  <<least>> \o SortStrings(S \ {least})

HasSuffix(name, suffix) == Len(name) > 0 /\ name[Len(name)] = suffix

getAvailableMigrations(files) ==
    SortStrings({file.name : file \in {f \in files : ~f.isDir /\ HasSuffix(f.name, DotSql)}})

\* the steps of applyMigration that can fail, in order.  An Exec that fails
\* with "... already exists" is logged and passed over, and the INSERT that
\* follows it in the same transaction fails, because PostgreSQL rejects
\* every statement of a transaction after one of its statements has failed.
Steps == <<"ReadFile", "Begin", "Exec", "Exec: already exists", "INSERT", "Commit">>

\* applyMigration meeting a failure of `step` ("none": no failure): whether
\* it returns an error, and whether its transaction (the statements of the
\* file and the row in migrations) is committed; the deferred Rollback
\* undoes a transaction that is not
applyMigration(migrationName, step) ==
    IF step \in {"ReadFile", "Begin", "Exec"}
    THEN [err |-> TRUE, committed |-> FALSE]
    ELSE LET aborted == step = "Exec: already exists"
             insert  == aborted \/ step = "INSERT"
         IN  IF insert THEN [err |-> TRUE, committed |-> FALSE]
             ELSE IF step = "Commit" THEN [err |-> TRUE, committed |-> FALSE]
             ELSE [err |-> FALSE, committed |-> TRUE]

\* RunMigrations that applies every available migration
Exists_Never(appliedMigrations, migration) == FALSE

\* _, exists := appliedMigrations[migration]
Exists(appliedMigrations, migration) == migration \in appliedMigrations

\* the loop of RunMigrations over availableMigrations; done holds the
\* migrations this run has applied so far
RECURSIVE ApplyEach(_, _, _, _)
ApplyEach(availableMigrations, appliedMigrations, fail, done) ==
    IF availableMigrations = <<>> THEN [err |-> FALSE, applied |-> done]
    ELSE LET migration == Head(availableMigrations)
             rest      == Tail(availableMigrations)
             step      == IF fail.at = Len(done) + 1 THEN fail.step ELSE "none"
         IN  IF Exists(appliedMigrations, migration)
             THEN ApplyEach(rest, appliedMigrations, fail, done)
             ELSE IF applyMigration(migration, step).err
             THEN [err |-> TRUE, applied |-> done]
             ELSE ApplyEach(rest, appliedMigrations, fail, Append(done, migration))

\* the failures a run may meet: of a call before the loop, or of a step of
\* the first or of the second migration it applies
Failures ==
    {[step |-> s, at |-> 0] :
        s \in {"none", "createMigrationsTable", "getAppliedMigrations", "ReadDir"}}
        \cup {[step |-> Steps[i], at |-> k] : i \in DOMAIN Steps, k \in 1..2}

MigrateInit ==
    /\ users = <<>>
    /\ userSeq = 1
    /\ items = <<>>
    /\ handlers = EmptyBag
    /\ accepted = 0
    /\ listening = FALSE
    /\ written = 0
    /\ LoopIdle
    /\ CodecIdle
    /\ CryptoIdle
    /\ ClientIdle
    /\ SendIdle
    /\ MigrationsIdle

RunMigrations ==
    /\ ran.n < MaxRuns
    /\ \E files \in Listings, fail \in Failures :
          LET r == IF fail.at = 0 /\ fail.step # "none"
                   THEN [err |-> TRUE, applied |-> <<>>]
                   ELSE ApplyEach(getAvailableMigrations(files), migrations, fail, <<>>)
          IN  /\ migrations' = migrations \cup {r.applied[i] : i \in DOMAIN r.applied}
              /\ schema' = schema \o r.applied
              /\ ran' = [n |-> ran.n + 1, dir |-> files, before |-> migrations,
                         fail |-> fail, err |-> r.err, applied |-> r.applied]
    /\ UNCHANGED <<serverVars, loopVars, codecVars, cryptoVars, clientVars, sendVars>>

MigrateNext ==
    \/ RunMigrations

MigrateSpec == MigrateInit /\ [][MigrateNext]_vars

\* ------------------------------------------------------------------ LinkSpec
\* LinkSpec runs one Client against the server over the registered users:
\* every connection the Client dials is accepted and gets a handler of its
\* own (sessions[conn]), every frame the Client writes is one read of that
\* handler, and the frame the handler writes is what the Client reads,
\* unless the connection breaks before it arrives.
MaxLinks == 3

\* the strings the server writes, in the numbering the Client's readers use
\* for strings: 0 is the empty string
Text(s) ==
    CASE s = "" -> 0
      [] s = "dummy-token" -> 1
      [] OTHER -> 2

SerializeAuthResponse(resp) ==
    Marshal(<<KSuccess, IF resp.Success THEN 1 ELSE 0, KToken, Text(resp.Token)>>)

SerializeErrorResponse(resp) ==
    Marshal(<<KCode, resp.Code, KMessage, Text(resp.Message)>>)

\* the bytes sendResponse / sendError put on the connection for a frame
Sent(frame) ==
    SerializeMessage(frame.Type, frame.MessageID,
                     IF frame.Type = MsgTypeError THEN SerializeErrorResponse(frame.Body)
                     ELSE SerializeAuthResponse(frame.Body))

\* Accept and NewClientHandler for a connection the Client dialed
Accepted == [h |-> NewClientHandler, open |-> TRUE]

LinkInit ==
    /\ users = SeededUsers(MaxUsers)
    /\ userSeq = MaxUsers + 1
    /\ items \in SeededItems(MaxUsers)
    /\ handlers = EmptyBag
    /\ accepted = 0
    /\ listening = TRUE
    /\ written = 0
    /\ LoopIdle
    /\ CodecIdle
    /\ CryptoIdle
    /\ ClientIdle
    /\ SendIdle
    /\ MigrationsIdle

Linked(dials) ==
    /\ returns' = [returns EXCEPT !.n = @ + 1, !.dialed = @ + dials]
    /\ UNCHANGED <<handlers, accepted, listening, written, loopVars, codecVars, cryptoVars,
                   sendVars, migrationVars>>

\* Client.Connect: a new connection takes the place of c.conn, which is
\* neither closed nor looked at
LinkConnect ==
    /\ returns.n < MaxLinks
    /\ \E dialErr \in BOOLEAN :
          LET r == Connect(client, [dialErr |-> dialErr, writeErr |-> FALSE,
                                    reply |-> <<>>, conn |-> Len(sessions) + 1])
          IN  /\ client' = r.c
              /\ sessions' = IF dialErr THEN sessions ELSE Append(sessions, Accepted)
              /\ Linked(1)
    /\ UNCHANGED <<users, userSeq, items>>

\* Client.Close: c.conn.Close(); c.conn keeps the closed connection.  The
\* handler's conn.Read fails and Handle returns.
LinkClose ==
    /\ returns.n < MaxLinks
    /\ client.conn # 0
    /\ sessions' = [sessions EXCEPT ![client.conn].open = FALSE]
    /\ Linked(0)
    /\ UNCHANGED <<client, users, userSeq, items>>

\* Client.Login against the handler of c.conn; lost: the connection breaks
\* after the handler has read the request and before its answer arrives
LinkLogin ==
    /\ returns.n < MaxLinks
    /\ \E username \in Usernames, password \in Passwords, dialErr \in BOOLEAN,
          fail \in Fails(MsgTypeAuthRequest), lost \in BOOLEAN :
          LET dial   == client.conn = 0
              conn   == IF dial THEN Len(sessions) + 1 ELSE client.conn
              dialed == IF dial /\ ~dialErr THEN Append(sessions, Accepted) ELSE sessions
              open   == conn \in DOMAIN dialed /\ dialed[conn].open
              quiet  == [dialErr |-> dialErr, writeErr |-> ~open, reply |-> <<>>,
                         conn |-> conn]
              alone  == Login(client, username, password, quiet)
          IN  IF alone.wrote = <<>> \/ ~open
              THEN /\ client' = alone.c
                   /\ sessions' = dialed
                   /\ Linked(alone.dials)
                   /\ UNCHANGED <<users, userSeq, items>>
              ELSE \E o \in HandleRead(dialed[conn].h, DB, alone.wrote[1], fail) :
                      LET reply == IF lost THEN <<>> ELSE Sent(o.out[1])
                          r     == Login(client, username, password,
                                         [quiet EXCEPT !.reply = reply])
                      IN  /\ client' = r.c
                          /\ sessions' = [dialed EXCEPT ![conn].h = o.h]
                          /\ users' = o.db.users
                          /\ userSeq' = o.db.userSeq
                          /\ items' = o.db.items
                          /\ Linked(r.dials)

\* the handlers of the connections the Client dialed and has not closed
Serving == {sessions[c].h : c \in {d \in DOMAIN sessions : sessions[d].open}}

LinkNext ==
    \/ LinkConnect
    \/ LinkClose
    \/ LinkLogin

LinkSpec == LinkInit /\ [][LinkNext]_vars

TypeOK ==
    /\ DOMAIN users \subseteq Usernames
    /\ DOMAIN items \subseteq ItemIds
    /\ \A i \in DOMAIN items : items[i].created_at \in Times
    /\ IsABag(handlers)
    /\ BagCardinality(handlers) <= accepted
    /\ accepted \in 0..NumConns
    /\ written \in 0..MaxMsgs
    /\ \A h \in Live : h.messageID <= written

\* -------------------------------------------------------------- properties
\* The properties quantify over every live handler, every read of the input
\* sets and every gateway failure, in every reachable state: over every
\* step a handler can take after every interleaving of the sessions.
ProtectedTypes ==
    {MsgTypeSyncRequest, MsgTypeDataRequest, MsgTypeSaveDataRequest,
     MsgTypeDeleteDataRequest, MsgTypeUpdateDataRequest, MsgTypeDownloadRequest}

WriteTypes == {MsgTypeUpdateDataRequest, MsgTypeDeleteDataRequest}

ReadTypes == {MsgTypeDataRequest, MsgTypeDownloadRequest}

\* the session is authenticated: the test every protected handler makes
Authenticated(h) == h.userID # 0

ErrorFrame(h, message) ==
    [Type |-> MsgTypeError, Version |-> ProtocolVersion, MessageID |-> h.messageID,
     Body |-> [Code |-> ErrorCode, Message |-> message]]

IsError(out) == Len(out) = 1 /\ out[1].Type = MsgTypeError

\* the payload the handler gets from a read
PayloadOf(data) == DeserializeMessage(data).payload

\* an AuthRequest whose body parses and whose credentials the gateway does
\* not verify (no such user, wrong password, or the lookup fails)
CredentialsFail(db, data, fail) ==
    LET q == DeserializeAuthRequest(PayloadOf(data))
    IN  /\ ~q.err
        /\ ~AuthenticateUser(db, q.Username, q.Password, fail = 1).ok

\* the AuthRequest reads whose body parses, with the request they carry
AuthReads ==
    {[data |-> d, req |-> DeserializeAuthRequest(PayloadOf(d))] :
        d \in {e \in ReadsOf[MsgTypeAuthRequest] :
                  ~DeserializeAuthRequest(PayloadOf(e)).err}}

\* those for a registered username with a password that does not verify
WrongPassword(db) ==
    {a.data : a \in {b \in AuthReads :
        /\ b.req.Username \in DOMAIN db.users
        /\ ~VerifyPassword(b.req.Password, db.users[b.req.Username].password_hash,
                           db.users[b.req.Username].password_salt)}}

\* those for a username with no row in users
UnknownUser(db) ==
    {a.data : a \in {b \in AuthReads : b.req.Username \notin DOMAIN db.users}}

\* an item id that names a row of user_data owned by someone other than h
OwnedByOther(db, h, itemID) ==
    itemID \in DOMAIN db.items /\ db.items[itemID].user_id # h.userID

\* the database without row itemID of user_data
WithoutItem(db, itemID) ==
    [db EXCEPT !.items = [i \in DOMAIN db.items \ {itemID} |-> db.items[i]]]

\* the frames and session fields a read can result in
Responses(h, db, data, fail) ==
    {[out |-> r.out, h |-> r.h] : r \in HandleRead(h, db, data, fail)}

\* the outcomes of a RegisterRequest that answer RegisterResponse
RegisterSucceeds(r) ==
    Len(r.out) = 1 /\ r.out[1].Type = MsgTypeRegisterResponse

\* C1: a Sync, Data, SaveData, DeleteData, UpdateData or Download request
\* handled while the session is unauthenticated is answered with the error
\* "Not authenticated" and makes no gateway call (and leaves the database
\* as it is).
C1_AuthGating ==
    \A h \in Live : \A t \in ProtectedTypes : \A data \in ReadsOf[t] :
    \A fail \in Fails(t) :
        ~Authenticated(h) =>
            \A r \in HandleRead(h, DB, data, fail) :
                /\ r.out = <<ErrorFrame(h, "Not authenticated")>>
                /\ r.calls = <<>>
                /\ r.db = DB

\* an unauthenticated session that has answered a request and can handle
\* another, while the database holds users and an item a protected request
\* could touch
C1_Witness ==
    \E h \in Live :
        /\ ~Authenticated(h)
        /\ h.messageID >= 1
        /\ DOMAIN users # {}
        /\ DOMAIN items # {}
        /\ written < MaxMsgs

\* C2: handling a read makes an unauthenticated session authenticated only
\* if the read is an AuthRequest whose username has a password record that
\* verifies the request's password, and no gateway call failed.
C2_AuthOnlyByVerifiedAuthRequest ==
    \A h \in Live : \A in \in Inputs :
        ~Authenticated(h) =>
            \A r \in HandleRead(h, DB, in[1], in[2]) :
                Authenticated(r.h) =>
                    LET data == in[1]
                        q    == DeserializeAuthRequest(PayloadOf(data))
                    IN  /\ Len(data) >= HeaderLen
                        /\ data[1] = MsgTypeAuthRequest
                        /\ ~q.err
                        /\ in[2] = 0
                        /\ q.Username \in DOMAIN users
                        /\ VerifyPassword(q.Password, users[q.Username].password_hash,
                                          users[q.Username].password_salt)
                        /\ r.h.username = q.Username
                        /\ r.h.userID = users[q.Username].id

\* a session whose first answer was the AuthResponse that authenticated it
C2_Witness ==
    \E h \in Live :
        /\ Authenticated(h)
        /\ h.messageID = 1
        /\ h.username \in DOMAIN users
        /\ h.userID = users[h.username].id

\* C3: no read handled on an authenticated session changes its username or
\* its userID.
C3_IdentityWriteOnce ==
    \A h \in Live : \A in \in Inputs :
        Authenticated(h) =>
            \A r \in HandleRead(h, DB, in[1], in[2]) :
                /\ r.h.username = h.username
                /\ r.h.userID = h.userID

\* C4: handling a read never makes an authenticated session unauthenticated,
\* whatever the read (failed AuthRequest, RegisterRequest, unknown type,
\* malformed payload, short read) and whichever gateway call fails.
C4_AuthenticatedIsOneWay ==
    \A h \in Live : \A in \in Inputs :
        Authenticated(h) =>
            \A r \in HandleRead(h, DB, in[1], in[2]) : Authenticated(r.h)

\* an authenticated session that has answered a request after the
\* AuthRequest that authenticated it
C4_Witness ==
    \E h \in Live :
        /\ Authenticated(h)
        /\ h.messageID >= 2

\* C5: handling an AuthRequest with failing credentials on an
\* unauthenticated session leaves username and userID as they were, writes
\* one error frame and does not end the read loop (the connection stays
\* open and the next read is handled).
C5_FailedAuthKeepsSession ==
    \A h \in Live : \A data \in ReadsOf[MsgTypeAuthRequest] :
    \A fail \in Fails(MsgTypeAuthRequest) :
        (~Authenticated(h) /\ CredentialsFail(DB, data, fail)) =>
            \A r \in HandleRead(h, DB, data, fail) :
                /\ r.h.username = h.username
                /\ r.h.userID = h.userID
                /\ IsError(r.out)
                /\ ~r.closed

\* the only connection accepted so far is unauthenticated, has answered one
\* request with its Handle still running and can handle another, and the
\* wrong password for a registered user is among the reads
C5_Witness ==
    \E h \in Live :
        /\ accepted = 1
        /\ h.username = 0
        /\ h.userID = 0
        /\ h.messageID = 1
        /\ written < MaxMsgs
        /\ \E data \in ReadsOf[MsgTypeAuthRequest] :
              /\ CredentialsFail(DB, data, 0)
              /\ DeserializeAuthRequest(PayloadOf(data)).Username \in DOMAIN users

\* C6: in every reachable state (so after every interleaving of sessions),
\* an UpdateDataRequest or DeleteDataRequest handled on a session
\* authenticated as user A leaves every row of user_data whose owner is not
\* A in the table and unchanged, whatever the read and the gateway failure.
C6_WritesTouchOnlyOwnItems ==
    \A h \in Live : \A t \in WriteTypes : \A data \in ReadsOf[t] :
    \A fail \in Fails(t) :
        Authenticated(h) =>
            \A r \in HandleRead(h, DB, data, fail) :
                \A i \in DOMAIN items :
                    items[i].user_id # h.userID =>
                        /\ i \in DOMAIN r.db.items
                        /\ r.db.items[i] = items[i]

\* a session authenticated as A that has answered a request after its
\* AuthRequest, while an item of another user B is stored
C6_Witness ==
    \E h \in Live : \E i \in DOMAIN items :
        /\ Authenticated(h)
        /\ h.messageID >= 2
        /\ OwnedByOther(DB, h, i)

\* C7: an UpdateDataRequest or DeleteDataRequest with a well-formed body,
\* handled on an authenticated session with no gateway failure, whose item
\* id names an item of another user or no item, is answered with an error
\* frame and not with a success response.
C7_ForeignOrMissingItemFails ==
    \A h \in Live : \A t \in WriteTypes : \A data \in ReadsOf[t] :
        LET q == DeserializeItemID(PayloadOf(data))
        IN  (/\ Authenticated(h)
             /\ ~q.err
             /\ q.ItemID \in ItemIds
             /\ (q.ItemID \notin DOMAIN items \/ OwnedByOther(DB, h, q.ItemID))) =>
                \A r \in HandleRead(h, DB, data, 0) : IsError(r.out)

\* C8: for a session authenticated as A, the response to a DataRequest or
\* DownloadRequest naming an item of another user B is the error "Data not
\* found": the same frame the request gets when that row does not exist,
\* and the same frame a request naming no row gets; it carries nothing of
\* B's item.
C8_NoExistenceLeakOnReads ==
    \A h \in Live : \A t \in ReadTypes : \A data \in ReadsOf[t] :
    \A fail \in Fails(t) :
        LET q == DeserializeItemID(PayloadOf(data))
        IN  (/\ Authenticated(h)
             /\ ~q.err
             /\ OwnedByOther(DB, h, q.ItemID)) =>
                /\ Responses(h, DB, data, fail) =
                       Responses(h, WithoutItem(DB, q.ItemID), data, fail)
                /\ Responses(h, DB, data, fail) =
                       {[out |-> <<ErrorFrame(h, "Data not found")>>,
                         h   |-> [h EXCEPT !.messageID = Inc32(@)]]}
                /\ \A other \in ReadsOf[t] :
                      LET o == DeserializeItemID(PayloadOf(other))
                      IN  (~o.err /\ o.ItemID \notin DOMAIN items) =>
                              Responses(h, DB, other, fail) = Responses(h, DB, data, fail)

\* a session authenticated as A that has answered a request after its
\* AuthRequest, while an item of another user B is stored, a DataRequest
\* can name it and a DownloadRequest can name an id that is not stored
C8_Witness ==
    \E h \in Live : \E i \in DOMAIN items :
        /\ Authenticated(h)
        /\ h.messageID >= 2
        /\ OwnedByOther(DB, h, i)
        /\ \E data \in ReadsOf[MsgTypeDataRequest] :
              DeserializeItemID(PayloadOf(data)).ItemID = i
        /\ \E other \in ReadsOf[MsgTypeDownloadRequest] :
              LET o == DeserializeItemID(PayloadOf(other))
              IN  ~o.err /\ o.ItemID \notin DOMAIN items

\* C9: on any session and under the same gateway condition, an AuthRequest
\* for a username with no row in users and an AuthRequest for a registered
\* username with a password that does not verify result in the same frames
\* (type, message id, code, message), the same session fields and the same
\* database.
C9_AuthFailureHidesUserExistence ==
    \A d1 \in WrongPassword(DB), d2 \in UnknownUser(DB) :
    \A h \in Live : \A fail \in Fails(MsgTypeAuthRequest) :
        /\ Responses(h, DB, d1, fail) = Responses(h, DB, d2, fail)
        /\ \A r \in HandleRead(h, DB, d1, fail) \cup HandleRead(h, DB, d2, fail) :
              r.db = DB /\ IsError(r.out)

\* a session that has answered a request, in a database where one of the
\* usernames clients send is registered and another is not, and the reads
\* hold an AuthRequest with failing credentials for each
C9_Witness ==
    \E h \in Live : \E u1, u2 \in Usernames :
        /\ h.messageID >= 1
        /\ u1 \in DOMAIN users
        /\ u2 \notin DOMAIN users
        /\ \E d1 \in WrongPassword(DB), d2 \in UnknownUser(DB) :
              /\ DeserializeAuthRequest(PayloadOf(d1)).Username = u1
              /\ DeserializeAuthRequest(PayloadOf(d2)).Username = u2

\* C10: an outcome of a RegisterRequest that answers RegisterResponse leaves
\* username and userID (so the authenticated state) as they were, and on a
\* session that was unauthenticated every protected request handled next on
\* the same connection is answered "Not authenticated".
C10_RegisterDoesNotAuthenticate ==
    \A h \in Live : \A data \in ReadsOf[MsgTypeRegisterRequest] :
    \A fail \in Fails(MsgTypeRegisterRequest) :
        \A r \in HandleRead(h, DB, data, fail) :
            RegisterSucceeds(r) =>
                /\ r.h.username = h.username
                /\ r.h.userID = h.userID
                /\ Authenticated(r.h) <=> Authenticated(h)
                /\ ~r.closed
                /\ ~Authenticated(h) =>
                      \A t \in ProtectedTypes : \A next \in ReadsOf[t] :
                      \A fail2 \in Fails(t) :
                          \A r2 \in HandleRead(r.h, r.db, next, fail2) :
                              /\ r2.out = <<ErrorFrame(r.h, "Not authenticated")>>
                              /\ r2.db = r.db

\* the only connection accepted so far is unauthenticated and has answered
\* a request, and the table users is not one an earlier run left: the
\* connection's RegisterRequest succeeded
C10_Witness ==
    \E h \in Live :
        /\ accepted = 1
        /\ h.username = 0
        /\ h.userID = 0
        /\ h.messageID >= 1
        /\ \A k \in 0..MaxUsers : users # SeededUsers(k)

\* the password p verifies against the record of the registered user u
Verifies(db, u, p) ==
    VerifyPassword(p, db.users[u].password_hash, db.users[u].password_salt)

\* C11: a RegisterRequest whose body parses and whose username already has
\* a row in users is answered with one error frame, whichever password it
\* carries and whether or not the gateway fails otherwise; the row (id,
\* hash, salt) is what it was, so a password authenticates afterwards
\* exactly if it did before: the original one does, and the request's does
\* not unless it is the original.
C11_DuplicateRegisterFails ==
    \A h \in Live : \A data \in ReadsOf[MsgTypeRegisterRequest] :
    \A fail \in Fails(MsgTypeRegisterRequest) :
        LET q == DeserializeRegisterRequest(PayloadOf(data))
        IN  (~q.err /\ q.Username \in DOMAIN users) =>
                \A r \in HandleRead(h, DB, data, fail) :
                    /\ IsError(r.out)
                    /\ ~r.closed
                    /\ r.h.userID = h.userID
                    /\ DOMAIN r.db.users = DOMAIN users
                    /\ r.db.users[q.Username] = users[q.Username]
                    /\ \E p \in Passwords :
                          AuthenticateUser(r.db, q.Username, p, FALSE).ok
                    /\ \A p \in Passwords :
                          AuthenticateUser(r.db, q.Username, p, FALSE) =
                              AuthenticateUser(DB, q.Username, p, FALSE)
                    /\ ~Verifies(DB, q.Username, q.Password) =>
                          ~AuthenticateUser(r.db, q.Username, q.Password, FALSE).ok

\* a connection has answered a request and can handle another, a username
\* was registered on this run with the second password, and a
\* RegisterRequest for that username with the first password is among the
\* reads
C11_Witness ==
    \E h \in Live : \E u \in DOMAIN users :
        /\ h.messageID >= 1
        /\ written < MaxMsgs
        /\ Verifies(DB, u, 2)
        /\ \E data \in ReadsOf[MsgTypeRegisterRequest] :
              LET q == DeserializeRegisterRequest(PayloadOf(data))
              IN  ~q.err /\ q.Username = u /\ q.Password = 1

\* the message ids of the frames written on the connection, in order
OutboxIDs == [k \in 1..Len(outbox) |-> outbox[k].frame.MessageID]

\* C12: on one connection the k-th frame written answers the k-th request
\* conn.Read returned, and every request read has its response written
\* except the one being dispatched: whenever Handle is at conn.Read (or has
\* returned) nothing read is unanswered, so request k+1 is not read before
\* the response to request k is written.
C12_ResponsesInRequestOrder ==
    /\ \A k \in 1..Len(outbox) : outbox[k].re = k
    /\ pos = Len(outbox) + (IF pc = "dispatch" THEN 1 ELSE 0)
    /\ pc # "dispatch" => pos = Len(outbox)

\* the client has written three requests without waiting; the first two
\* are answered (an AuthResponse, then a SyncResponse) and the third is
\* being dispatched
C12_Witness ==
    /\ Len(stream) = 3
    /\ pos = 3
    /\ pc = "dispatch"
    /\ Len(outbox) = 2
    /\ outbox[1].frame.Type = MsgTypeAuthResponse
    /\ outbox[2].frame.Type = MsgTypeSyncResponse

\* C13 as stated: the message ids of the frames written on one connection
\* are strictly increasing (as uint32) over its whole lifetime.
C13_MessageIdStrictlyIncreasing ==
    \A i, j \in 1..Len(outbox) : i < j => Less32(OutboxIDs[i], OutboxIDs[j])

\* C13, amended: every frame written on one connection, success response or
\* error response, carries the message id of the frame before it plus one
\* modulo 2^32, whatever the message ids of the requests, and the
\* handler's counter is one past the last frame's; so the ids are strictly
\* increasing over every stretch of frames that does not pass the id
\* 4294967295, after which the next frame carries 0.
C13_MessageIdCountsFrames ==
    /\ \A k \in 1..(Len(outbox) - 1) : OutboxIDs[k + 1] = Inc32(OutboxIDs[k])
    /\ \A h \in Live :
          outbox # <<>> => h.messageID = Inc32(OutboxIDs[Len(outbox)])
    /\ \A i, j \in 1..Len(outbox) :
          (i < j /\ \A k \in i..(j - 1) : OutboxIDs[k] # MaxUint32) =>
              Less32(OutboxIDs[i], OutboxIDs[j])

\* three frames written on a connection whose counter was at 4294967295:
\* an error response with that id, then an AuthResponse with id 0 and a
\* SyncResponse with id 1, to requests whose message ids were others
C13_Witness ==
    /\ Len(outbox) = 3
    /\ outbox[1].frame.Type = MsgTypeError
    /\ outbox[2].frame.Type = MsgTypeAuthResponse
    /\ outbox[3].frame.Type = MsgTypeSyncResponse
    /\ OutboxIDs = <<MaxUint32, 0, 1>>
    /\ \A k \in 1..3 : DeserializeMessage(stream[k][1]).header.MessageID # OutboxIDs[k]

\* the rows of user_data a SyncRequest{lastSync} of user userID is about
Newer(db, userID, lastSync) ==
    {i \in DOMAIN db.items :
        db.items[i].user_id = userID /\ db.items[i].updated_at > lastSync}

\* C14: a SyncRequest whose body parses, handled on an authenticated
\* session with no gateway failure, is answered with one SyncResponse whose
\* items are, each once, the rows owned by the session's user whose
\* updated_at is after lastSync, as stored and in ascending updated_at
\* order; with the zero time (last_sync absent or the empty string) they
\* are all the rows of that user; no item of it is a row of another user.
C14_SyncReturnsOwnNewerItems ==
    \A h \in Live : \A data \in ReadsOf[MsgTypeSyncRequest] :
        LET q == DeserializeSyncRequest(PayloadOf(data))
        IN  (Authenticated(h) /\ ~q.err) =>
                \A r \in HandleRead(h, DB, data, 0) :
                    /\ Len(r.out) = 1
                    /\ r.out[1].Type = MsgTypeSyncResponse
                    /\ r.db = DB
                    /\ LET list == r.out[1].Body.Items
                           n    == Len(list)
                       IN  /\ {list[k].ID : k \in 1..n} = Newer(DB, h.userID, q.LastSync)
                           /\ n = Cardinality(Newer(DB, h.userID, q.LastSync))
                           /\ \A k \in 1..n : list[k] = DataItem(DB, list[k].ID)
                           /\ \A j, k \in 1..n :
                                 j < k => list[j].UpdatedAt <= list[k].UpdatedAt
                           /\ \A k \in 1..n : items[list[k].ID].user_id = h.userID
                           /\ q.LastSync = 0 =>
                                 {list[k].ID : k \in 1..n} =
                                     {i \in DOMAIN items : items[i].user_id = h.userID}

\* a session authenticated by its first request can handle another, while
\* its user owns two rows stored at different times and another user owns
\* a third; the reads hold a SyncRequest whose lastSync lies between the two
\* and one without last_sync
C14_Witness ==
    \E h \in Live : \E i, j, k \in DOMAIN items :
        /\ Authenticated(h)
        /\ h.messageID = 1
        /\ written < MaxMsgs
        /\ items[i].user_id = h.userID
        /\ items[j].user_id = h.userID
        /\ items[i].updated_at < items[j].updated_at
        /\ items[k].user_id # h.userID
        /\ \E data \in ReadsOf[MsgTypeSyncRequest] :
              LET q == DeserializeSyncRequest(PayloadOf(data))
              IN  ~q.err /\ q.LastSync = items[i].updated_at
        /\ \E data \in ReadsOf[MsgTypeSyncRequest] :
              PayloadOf(data) = Marshal(<<>>)

\* every value of the type byte handleMessage has no case for: the
\* response types, Error, 0 and the unassigned codes
UnknownTypes == (0..255) \ RequestTypes

\* C15: a frame whose type byte is none of the eight request types is
\* answered with the error frame "Unknown message type", whatever its
\* payload and whether or not the session is authenticated; handling it
\* makes no gateway call, leaves the database, username and userID as they
\* were and does not end the read loop.
C15_UnknownTypeIsRejected ==
    \A h \in Live :
        /\ \A t \in UnknownTypes : \A p \in Payloads(t) \cup {<<>>} :
              handleMessage(h, DB, t, p, 0) =
                  {[h      |-> [h EXCEPT !.messageID = Inc32(@)],
                    out    |-> <<ErrorFrame(h, "Unknown message type")>>,
                    calls  |-> <<>>,
                    db     |-> DB,
                    closed |-> FALSE]}
        /\ \A t \in OtherTypes : \A data \in ReadsOf[t] :
              \A r \in HandleRead(h, DB, data, 0) :
                  /\ r.out = <<ErrorFrame(h, "Unknown message type")>>
                  /\ r.calls = <<>>
                  /\ r.db = DB
                  /\ r.h.username = h.username
                  /\ r.h.userID = h.userID
                  /\ ~r.closed

\* the connection has authenticated and then sent a frame of type
\* AuthResponse: the second frame written to it is the error "Unknown
\* message type", and the session is still authenticated and open
C15_Witness ==
    \E h \in Live :
        /\ Len(outbox) = 2
        /\ outbox[1].frame.Type = MsgTypeAuthResponse
        /\ outbox[2].frame.Type = MsgTypeError
        /\ outbox[2].frame.Body.Message = "Unknown message type"
        /\ Len(stream[outbox[2].re][1]) >= HeaderLen
        /\ stream[outbox[2].re][1][1] = MsgTypeAuthResponse
        /\ Authenticated(h)
        /\ pc = "read"

\* the receiver has the whole header of the frame but not all of the
\* payload its Length declares
MidPayload == Len(received) >= HeaderLen /\ Len(received) < Len(wire)

\* C16: DeserializeMessage applied to a frame whose header is whole and
\* declares more payload bytes than follow it returns an error.
C16_TruncatedFrameFailsToDecode ==
    (decoded.fn = "DeserializeMessage" /\ MidPayload) => decoded.res.err

\* C18: DeserializeMessage and DeserializeHeader applied to fewer than 10
\* bytes return the error (ErrInvalidMessage), the zero MessageHeader and,
\* for DeserializeMessage, no payload.
C18_ShortInputIsInvalid ==
    (decoded.fn # "none" /\ Len(received) < HeaderLen) =>
        /\ decoded.res.err
        /\ decoded.res.header = NoHeader
        /\ decoded.fn = "DeserializeMessage" => decoded.res.payload = <<>>

\* DeserializeHeader has been applied to the first 9 bytes of a frame
C18_Witness ==
    /\ decoded.fn = "DeserializeHeader"
    /\ Len(received) = HeaderLen - 1
    /\ received # SubSeq(SerializeMessage(0, 0, <<>>), 1, HeaderLen - 1)

\* C19: DeserializeMessage applied to the whole frame SerializeMessage
\* returned for a type, a message id and a payload (the empty one
\* included) returns no error, a header with that type and message id,
\* and that payload.
C19_FrameRoundTrip ==
    (decoded.fn = "DeserializeMessage" /\ wire # <<>> /\ received = wire) =>
        /\ ~decoded.res.err
        /\ decoded.res.header.Type = call.Type
        /\ decoded.res.header.MessageID = call.MessageID
        /\ decoded.res.payload = call.Data

\* the whole frame of an Error message with id 4294967295 and the large
\* payload has been decoded
C19_Witness ==
    /\ decoded.fn = "DeserializeMessage"
    /\ received = wire
    /\ call.Type = MsgTypeError
    /\ call.MessageID = MaxUint32
    /\ call.Data = LargeData

\* C20: every frame SerializeMessage returns is 10 + len(payload) bytes
\* long, the big-endian uint32 in its bytes 6..9 is len(payload), its
\* version byte is 1 and the payload follows the header.
C20_HeaderInvariant ==
    wire # <<>> =>
        /\ Len(wire) = HeaderLen + Len(call.Data)
        /\ Uint32(SubSeq(wire, 7, 10)) = Len(call.Data)
        /\ DeserializeHeader(wire).header.Length = Len(call.Data)
        /\ wire[2] = ProtocolVersion
        /\ SubSeq(wire, HeaderLen + 1, Len(wire)) = call.Data

\* SerializeMessage has returned the frame of the large payload, and
\* nothing of it has been received yet
C20_Witness ==
    /\ wire # <<>>
    /\ call.Data = LargeData
    /\ received = <<>>
    /\ decoded = NotDecoded

\* the reads that hold a whole header and fewer payload bytes than its
\* Length declares
TruncatedReads ==
    {in \in Inputs :
        /\ Len(in[1]) >= HeaderLen
        /\ Truncated(in[1], DeserializeHeader(in[1]).header)}

\* C17: when conn.Read returns a frame cut short in its payload, Handle
\* returns (the connection is closed) instead of reading again.
C17_TruncatedFrameClosesConnection ==
    \A h \in Live : \A in \in TruncatedReads :
        \A r \in HandleRead(h, DB, in[1], in[2]) : r.closed

\* ---------------------------------------------------------------- C21..C24
\* data is what Encrypt returns under key for some plaintext and some nonce:
\* the key stream is undone byte by byte, so only one plaintext can be it
Produced(data, key) ==
    /\ Len(data) >= NonceSize + TagSize
    /\ LET nonce == SubSeq(data, 1, NonceSize)
           n     == Len(data) - NonceSize - TagSize
           m     == [i \in 1..n |-> (data[NonceSize + i] - KeyStream(key, nonce, i)) % 256]
       IN  Encrypt(m, key, nonce, FALSE) = Success(data)

\* C21: Decrypt of what Encrypt returned for a plaintext under a 32-byte key
\* gives that plaintext back without error when it is handed the same key,
\* and an error when it is handed any other 32-byte key.
C21_EnvelopeRoundTrip ==
    (/\ made.fn = "Encrypt"
     /\ ~made.ret.err
     /\ Len(made.key) = KeySize
     /\ used.fn = "Decrypt"
     /\ used.data = made.ret.out
     /\ Len(used.key) = KeySize)
    => IF used.key = made.key
       THEN used.ret = Success(made.data)
       ELSE used.ret.err

C21_Witness ==
    /\ made.fn = "Encrypt"
    /\ Len(made.data) = MaxPlain
    /\ 255 \in {made.data[i] : i \in 1..Len(made.data)}
    /\ ~made.ret.err
    /\ used.fn = "Decrypt"
    /\ used.data = made.ret.out
    /\ used.key = made.key
    /\ used.ret = Success(made.data)

\* C22: Decrypt returns an error and a nil plaintext, and does not panic,
\* when it is handed fewer bytes than a nonce, what Encrypt returned under
\* the key with one byte changed, or bytes that Encrypt returns under the
\* key for no plaintext.
C22_DecryptFailsClosed ==
    (/\ used.fn = "Decrypt"
     /\ \/ Len(used.data) < NonceSize
        \/ /\ ~made.ret.err
           /\ made.key = used.key
           /\ used.data \in Tampered(made.ret.out)
        \/ ~Produced(used.data, used.key))
    => used.ret = Failure

C22_Witness ==
    /\ made.fn = "Encrypt"
    /\ ~made.ret.err
    /\ Len(made.data) > 0
    /\ used.fn = "Decrypt"
    /\ used.key = made.key
    /\ used.data = [made.ret.out EXCEPT ![NonceSize + 1] = (@ + 1) % 256]
    /\ used.ret = Failure

\* C23: VerifyPassword, handed the hash and the salt HashPassword returned
\* for a password, answers true for that password and false for any other.
C23_PasswordVerification ==
    (/\ made.fn = "HashPassword"
     /\ used.fn = "VerifyPassword"
     /\ used.storedHash = made.ret.hash
     /\ used.storedSalt = made.ret.salt)
    => (used.ret <=> used.password = made.password)

C23_Witness ==
    /\ made.fn = "HashPassword"
    /\ used.fn = "VerifyPassword"
    /\ used.storedHash = made.ret.hash
    /\ used.storedSalt = made.ret.salt
    /\ used.password # made.password
    /\ used.password # 0
    /\ ~used.ret

\* C24, as stated: VerifyPassword answers false whenever the stored hash
\* or the stored salt is empty or is not base64.  (An empty salt is the
\* base64 of no bytes: the hash of the password under no salt verifies.)
C24_VerifyRejectsEmptyOrInvalid ==
    (/\ used.fn = "VerifyPassword"
     /\ \/ used.storedHash \in {EmptyString, NotBase64}
        \/ used.storedSalt \in {EmptyString, NotBase64})
    => ~used.ret

\* C24, amended: VerifyPassword answers false whenever the stored salt is
\* not base64, or the stored hash is empty or is not base64.
C24_VerifyRejectsMalformed ==
    (/\ used.fn = "VerifyPassword"
     /\ \/ used.storedHash \in {EmptyString, NotBase64}
        \/ used.storedSalt = NotBase64)
    => ~used.ret

C24_Witness ==
    /\ used.fn = "VerifyPassword"
    /\ used.storedSalt = NotBase64
    /\ used.storedHash = EncodeToString(Pbkdf2Key(used.password, <<>>))
    /\ ~used.ret

\* ---------------------------------------------------------------- C25..C29
\* the sessions there are once handler h has gone through outcome r
After(h, r) ==
    BagToSet(IF r.closed THEN handlers (-) SetToBag({h})
             ELSE (handlers (-) SetToBag({h})) (+) SetToBag({r.h}))

\* the AuthRequest frame for the credentials the RegisterRequest read data
\* carries
AuthFor(data) ==
    ClientFrame(MsgTypeAuthRequest, ProtocolVersion, 7, PayloadOf(data))

\* no row of table users is changed or deleted
UsersKept ==
    \A u \in DOMAIN users : u \in DOMAIN users' /\ users'[u] = users[u]

\* C25: when a RegisterRequest for (u, p) has been answered with
\* RegisterResponse, an AuthRequest for (u, p) read next on any connection,
\* the registering one included, is answered with AuthResponse{Success:
\* true} and a token that is not empty, and leaves that session with
\* username u and the userID of u's row; and no step changes or deletes a
\* row of users, so the same holds for an AuthRequest read at any later time.
C25_RegisteredUserLogsIn ==
    /\ [](\A h \in Live : \A data \in ReadsOf[MsgTypeRegisterRequest] :
          \A r \in HandleRead(h, DB, data, 0) :
              RegisterSucceeds(r) =>
                  LET q == DeserializeRegisterRequest(PayloadOf(data))
                  IN  \A h2 \in After(h, r) :
                      \A r2 \in HandleRead(h2, r.db, AuthFor(data), 0) :
                          /\ r2.out = << [Type |-> MsgTypeAuthResponse,
                                          Version |-> ProtocolVersion,
                                          MessageID |-> h2.messageID,
                                          Body |-> [Success |-> TRUE,
                                                    Token |-> "dummy-token"]] >>
                          /\ r2.out[1].Body.Token # ""
                          /\ r2.h.username = q.Username
                          /\ r2.h.userID = r.db.users[q.Username].id
                          /\ Authenticated(r2.h)
                          /\ ~r2.closed)
    /\ [][UsersKept]_vars

\* a session is authenticated as a user whose row is not one an earlier run
\* left: the user was registered with password 2 and has logged in with it
C25_Witness ==
    \E h \in Live : \E s \in Salts :
        /\ h.username \in DOMAIN users
        /\ h.userID = users[h.username].id
        /\ users[h.username].password_hash = HashPassword(2, s).hash

SaveSucceeds(r) ==
    Len(r.out) = 1 /\ r.out[1].Type = MsgTypeSaveDataResponse

\* SyncRequest{last_sync: the zero time}
SyncEpoch ==
    ClientFrame(MsgTypeSyncRequest, ProtocolVersion, 7, Marshal(<<KLastSync, 0>>))

\* the ids of the items a read is answered with in a SyncResponse (none
\* when it is answered otherwise)
SyncedIds(h, db, data) ==
    UNION {IF r.out[1].Type = MsgTypeSyncResponse
           THEN {r.out[1].Body.Items[k].ID : k \in 1..Len(r.out[1].Body.Items)}
           ELSE {} : r \in HandleRead(h, db, data, 0)}

\* C26: an outcome of a SaveDataRequest that answers SaveDataResponse on a
\* session authenticated as U leaves every row of user_data as it was and
\* adds exactly one, owned by U, with the type, name, data and metadata of
\* the request; a SyncRequest with the zero time read next on U's session
\* is answered with a SyncResponse that lists it with those fields, and one
\* read next on a session authenticated as another user is answered with a
\* SyncResponse that does not list it.
C26_SaveCreatesOneOwnedItem ==
    \A h \in Live : \A data \in ReadsOf[MsgTypeSaveDataRequest] :
        \A r \in HandleRead(h, DB, data, 0) :
            (Authenticated(h) /\ SaveSucceeds(r)) =>
                LET new == DOMAIN r.db.items \ DOMAIN items
                    req == DeserializeSaveDataRequest(PayloadOf(data)).Item
                IN  /\ Cardinality(new) = 1
                    /\ \A i \in DOMAIN items :
                          i \in DOMAIN r.db.items /\ r.db.items[i] = items[i]
                    /\ \A i \in new :
                          /\ r.db.items[i].user_id = h.userID
                          /\ r.db.items[i].data_type = req.Type
                          /\ r.db.items[i].name = req.Name
                          /\ r.db.items[i].data = req.Data
                          /\ r.db.items[i].metadata = req.Metadata
                          /\ \A r2 \in HandleRead(r.h, r.db, SyncEpoch, 0) :
                                /\ Len(r2.out) = 1
                                /\ r2.out[1].Type = MsgTypeSyncResponse
                                /\ \E k \in 1..Len(r2.out[1].Body.Items) :
                                      LET it == r2.out[1].Body.Items[k]
                                      IN  /\ it.ID = i
                                          /\ it.Type = req.Type
                                          /\ it.Name = req.Name
                                          /\ it.Data = req.Data
                                          /\ it.Metadata = req.Metadata
                          /\ \A h2 \in After(h, r) :
                                (Authenticated(h2) /\ h2.userID # h.userID) =>
                                    /\ i \notin SyncedIds(h2, r.db, SyncEpoch)
                                    /\ \A r2 \in HandleRead(h2, r.db, SyncEpoch, 0) :
                                          r2.out[1].Type = MsgTypeSyncResponse

\* user 2, who owned nothing in the database earlier runs left, has saved an
\* item on its session while the other session is authenticated as user 1
C26_Witness ==
    \E h, h2 \in Live : \E i \in DOMAIN items :
        /\ h.userID = 2
        /\ h.messageID = 2
        /\ items[i].user_id = 2
        /\ h2.userID = 1

UpdateSucceeds(r) ==
    Len(r.out) = 1 /\ r.out[1].Type = MsgTypeUpdateDataResponse

\* DataRequest{item_id: i}
DataRequestFor(i) ==
    ClientFrame(MsgTypeDataRequest, ProtocolVersion, 7, Marshal(<<KItemID, i>>))

\* what a DataRequest for item i answers after an UpdateDataRequest for it
\* by its owner answered UpdateDataResponse: the item with the fields of the
\* request, its id and its created_at, and an updated_at that is later than
\* (strict), or not before, the created_at it had
UpdateIsReadBack(strict) ==
    \A h \in Live : \A data \in ReadsOf[MsgTypeUpdateDataRequest] :
        \A r \in HandleRead(h, DB, data, 0) :
            LET q == DeserializeUpdateDataRequest(PayloadOf(data))
                i == q.ItemID
            IN  (/\ Authenticated(h)
                 /\ UpdateSucceeds(r)
                 /\ i \in DOMAIN items
                 /\ items[i].user_id = h.userID) =>
                    \A r2 \in HandleRead(r.h, r.db, DataRequestFor(i), 0) :
                        /\ Len(r2.out) = 1
                        /\ r2.out[1].Type = MsgTypeDataResponse
                        /\ LET it == r2.out[1].Body.Item
                           IN  /\ it.ID = i
                               /\ it.Type = q.Item.Type
                               /\ it.Name = q.Item.Name
                               /\ it.Data = q.Item.Data
                               /\ it.Metadata = q.Item.Metadata
                               /\ it.CreatedAt = items[i].created_at
                               /\ IF strict
                                  THEN it.UpdatedAt > items[i].created_at
                                  ELSE it.UpdatedAt >= items[i].created_at

\* C27, as stated: after an UpdateDataRequest by the owner answered with
\* UpdateDataResponse, a DataRequest for the item read next on the owner's
\* session returns it with the updated type, name, data and metadata, the
\* same id and createdAt, and an updatedAt strictly greater than the
\* createdAt.  (updated_at is the CURRENT_TIMESTAMP of the UPDATE, which is
\* the created_at when the clock of the database has not moved.)
C27_UpdatedAtStrictlyGreater == UpdateIsReadBack(TRUE)

\* C27, amended: the same with an updatedAt that is not before the createdAt.
C27_UpdateIsReadBack == UpdateIsReadBack(FALSE)

\* the owner's session has updated its item at the time the item was created
C27_Witness ==
    \E h \in Live : \E i \in DOMAIN items :
        /\ h.userID = items[i].user_id
        /\ h.messageID >= 2
        /\ items[i].data_type = DataTypeText
        /\ items[i].name = 2
        /\ items[i].updated_at = items[i].created_at

\* the error texts made of a handler's prefix and the gateway's error
CarriesGatewayError ==
    {prefix \o "db error" :
        prefix \in {"Registration failed: ", "Failed to store data: ",
                    "Failed to delete data: ", "Failed to update data: "}}

\* the fixed texts that answer a failed AuthenticateUser, GetUserID, GetData
\* and GetDataByID
FixedErrorText ==
    [AuthenticateUser |-> "Authentication error", GetUserID |-> "User not found",
     GetData |-> "Failed to get data", GetDataByID |-> "Data not found"]

\* what the failure of the gateway call number fail of a request leaves
\* behind: no gateway call after it, one error frame, the database and the
\* connection as they were.  As stated the frame carries the gateway's error
\* and the session is as it was; in fact the frame carries it for
\* CreateUser, StoreData, DeleteData and UpdateData and a fixed text for the
\* other four calls, and a failed GetUserID follows h.username = req.Username.
GatewayFailureHandled(asStated) ==
    \A h \in Live : \A t \in RequestTypes : \A data \in ReadsOf[t] :
    \A fail \in Fails(t) \ {0} :
        \A r \in HandleRead(h, DB, data, fail) :
            Len(r.calls) >= fail =>
                LET failed == r.calls[fail]
                IN  /\ Len(r.calls) = fail
                    /\ IsError(r.out)
                    /\ r.out[1].MessageID = h.messageID
                    /\ r.h.messageID = Inc32(h.messageID)
                    /\ r.h.userID = h.userID
                    /\ r.db = DB
                    /\ ~r.closed
                    /\ IF asStated
                       THEN /\ r.out[1].Body.Message \in CarriesGatewayError
                            /\ r.h.username = h.username
                       ELSE /\ IF failed \in DOMAIN FixedErrorText
                               THEN r.out[1].Body.Message = FixedErrorText[failed]
                               ELSE r.out[1].Body.Message \in CarriesGatewayError
                            /\ r.h.username =
                                  IF failed = "GetUserID"
                                  THEN DeserializeAuthRequest(PayloadOf(data)).Username
                                  ELSE h.username

C29_SessionFailureIsolation ==
    [][/\ listening'
       /\ BagCardinality(handlers') < BagCardinality(handlers) =>
             /\ \E h \in Live : handlers' = handlers (-) SetToBag({h})
             /\ UNCHANGED <<users, userSeq, items, accepted, written>>]_vars

\* every connection has been accepted, one of them has been closed, and a
\* session that was authenticated and has answered requests is still open
C29_Witness ==
    /\ listening
    /\ accepted = NumConns
    /\ BagCardinality(handlers) = NumConns - 1
    /\ \E h \in Live : Authenticated(h) /\ h.messageID >= 1

\* the methods that test IsAuthenticated before anything else
GuardedMethods ==
    {"SyncData", "SaveData", "GetData", "UpdateData", "DeleteData", "DownloadData"}

\* C30: on a Client for which no Login has succeeded, SyncData, SaveData,
\* GetData, UpdateData, DeleteData and DownloadData each return the error
\* "not authenticated" without a call of net.Dial and without handing any
\* frame to conn.Write, and leave the Client unauthenticated.
C30_GuardWithoutLogin ==
    (returns.logins = 0 /\ returns.last.fn \in GuardedMethods)
        => /\ returns.last.err = Errorf("not authenticated", 0)
           /\ returns.last.dials = 0
           /\ returns.last.wrote = <<>>
           /\ ~IsAuthenticated(client)

\* a guarded method has returned on a Client whose only Login failed after
\* it had opened the connection
C30_Witness ==
    /\ returns.logins = 0
    /\ client.conn # 0
    /\ returns.last.fn \in GuardedMethods
    /\ returns.last.err = Errorf("not authenticated", 0)

\* the last call wrote its request and a whole frame was there to read
FrameRead ==
    /\ Len(returns.last.reply) >= HeaderLen
    /\ ~Truncated(returns.last.reply, DeserializeHeader(returns.last.reply).header)

ReadType == DeserializeHeader(returns.last.reply).header.Type

ReadPayload == DeserializeMessage(returns.last.reply).payload

\* the response type the server answers a method's request with
ExpectedType(fn) ==
    CASE fn = "Register"     -> MsgTypeRegisterResponse
      [] fn = "Login"        -> MsgTypeAuthResponse
      [] fn = "SyncData"     -> MsgTypeSyncResponse
      [] fn = "GetData"      -> MsgTypeDataResponse
      [] fn = "SaveData"     -> MsgTypeSaveDataResponse
      [] fn = "DeleteData"   -> MsgTypeDeleteDataResponse
      [] fn = "UpdateData"   -> MsgTypeUpdateDataResponse
      [] fn = "DownloadData" -> MsgTypeDownloadResponse
      [] OTHER               -> 0

\* the token and username of the Client are those it had before the call
IdentityKept ==
    /\ client.token = returns.last.before.token
    /\ client.username = returns.last.before.username

\* C31 as stated: after Login(u, p) returns nil, IsAuthenticated() is true
\* and GetUsername() is u; after Login returns an error the token and the
\* username are what they were before the call.
C31_LoginAuthenticates ==
    returns.last.fn = "Login" =>
        IF returns.last.err = NoError
        THEN IsAuthenticated(client) /\ client.username = returns.last.args[1]
        ELSE IdentityKept

\* C31: after Login(u, p) returns nil, GetUsername() is u and the token is
\* the Token of the response, so that IsAuthenticated() is true exactly when
\* u and that Token are both non-empty; after Login returns an error the
\* token and the username are what they were before the call.
C31_LoginState ==
    returns.last.fn = "Login" =>
        IF returns.last.err = NoError
        THEN /\ client.username = returns.last.args[1]
             /\ client.token = DeserializeAuthResponse(ReadPayload).Token
             /\ IsAuthenticated(client)
                    <=> (returns.last.args[1] # 0 /\ client.token # 0)
        ELSE IdentityKept

\* a Login has failed on a Client that an earlier Login authenticated, and
\* the Client is still authenticated as before
C31_Witness ==
    /\ returns.last.fn = "Login"
    /\ returns.last.err # NoError
    /\ returns.logins = 1
    /\ IsAuthenticated(returns.last.before)
    /\ IsAuthenticated(client)

\* what a method requires of the payload of the frame it read
Accepts(fn, payload) ==
    /\ WellFormed(payload)
    /\ fn \in {"SyncData", "GetData"} \/ Field(payload, KSuccess) = 1

WholeFrames ==
    {ClientFrame(MsgTypeAuthRequest, ProtocolVersion, 7, p) : p \in CredPayloads}
        \cup {ClientFrame(MsgTypeSyncRequest, ProtocolVersion, 7, Marshal(<<KLastSync, 0>>))}

\* C34: the responses on a connection depend only on the request frames
\* the client sent, not on how the byte stream is split into reads: two
\* request frames that one conn.Read returns together get one response
\* each, and one request frame that two reads return in two pieces gets
\* exactly one response.
C34_SegmentationIndependent ==
    \A h \in Live : \A f \in WholeFrames :
        /\ \A g \in WholeFrames :
              \A r \in HandleRead(h, DB, f \o g, 0) : Len(r.out) = 2
        /\ \A k \in 1..(Len(f) - 1) :
              \A r1 \in HandleRead(h, DB, SubSeq(f, 1, k), 0) :
                 \A r2 \in HandleRead(r1.h, r1.db, SubSeq(f, k + 1, Len(f)), 0) :
                    Len(r1.out) + Len(r2.out) = 1

\* the goroutine is in Lock on a mutex that is locked: nothing unlocks it
Blocked ==
    /\ stack # <<>>
    /\ Top.pc = "Lock"
    /\ messageMux

\* C35: every call of sendResponse or sendError from the handling of a
\* request writes exactly one frame and returns to its caller, also when
\* the serialization of the response fails: the handler does not block.
C35_OneFrameAndBack ==
    /\ ~Blocked
    /\ (stack # <<>> /\ stack[1].pc = "return" /\ Len(stack) = 1)
          => written = stack[1].base + 1

\* C36: in every session with userID # 0 the two identity fields describe
\* the same user: userID is the gateway's id of the user named username,
\* also after a second AuthRequest whose GetUserID fails.
C36_IdentityConsistent ==
    \A h \in Live :
        h.userID # 0 =>
            /\ h.username \in DOMAIN DB.users
            /\ DB.users[h.username].id = h.userID

\* C37: whenever the Client is authenticated, the handler of its current
\* connection is running and authenticated as the Client's username, also
\* after Connect is called again and after a later Login fails.
C37_SessionsAgree ==
    IsAuthenticated(client) =>
        /\ client.conn \in DOMAIN sessions
        /\ sessions[client.conn].open
        /\ sessions[client.conn].h.userID # 0
        /\ sessions[client.conn].h.username = client.username

\* the reads of fewer than HeaderLen bytes: nothing, and the first bytes of
\* what the client writes
HeadsOf(data) ==
    {SubSeq(data, 1, k) :
        k \in 0..(IF Len(data) < HeaderLen THEN Len(data) ELSE HeaderLen - 1)}

ShorterReads == ShortReads \cup UNION {HeadsOf(in[1]) : in \in LoopInputs}

\* C38: a read of fewer than 10 bytes is answered with the one error frame
\* "Message too short"; nothing is dispatched and no gateway call is made,
\* the database, username and userID stay as they were and the read loop
\* goes on (the connection stays open).
C38_ShortReadIsAnswered ==
    /\ \A h \in Live : \A data \in ShorterReads : \A fail \in 0..2 :
          HandleRead(h, DB, data, fail) =
              {[h      |-> [h EXCEPT !.messageID = Inc32(@)],
                out    |-> <<ErrorFrame(h, "Message too short")>>,
                calls  |-> <<>>,
                db     |-> DB,
                closed |-> FALSE]}
    /\ \A k \in 1..Len(outbox) :
          Len(stream[outbox[k].re][1]) < HeaderLen =>
              /\ outbox[k].frame.Type = MsgTypeError
              /\ outbox[k].frame.Body.Message = "Message too short"
              /\ \A j \in 1..Len(outbox) : j # k => outbox[j].re # outbox[k].re

\* the connection has authenticated, then a read of no bytes was answered
\* "Message too short", and the read after it was answered by the session,
\* still authenticated
C38_Witness ==
    \E h \in Live :
        /\ Len(outbox) = 3
        /\ outbox[1].frame.Type = MsgTypeAuthResponse
        /\ Len(stream[outbox[2].re][1]) < HeaderLen
        /\ outbox[2].frame.Type = MsgTypeError
        /\ outbox[2].frame.Body.Message = "Message too short"
        /\ outbox[3].re = outbox[2].re + 1
        /\ outbox[3].frame.Type = MsgTypeSyncResponse
        /\ Authenticated(h)
        /\ pc = "read"

\* the frame `data` with another version byte and another message id
Reframed(data, version, id) ==
    <<data[1], version>> \o PutUint32(id) \o SubSeq(data, 7, Len(data))

\* the version bytes and message ids a frame is sent with in its place
OtherHeaders ==
    {<<0, 7>>, <<ProtocolVersion + 1, 7>>, <<255, 7>>,
     <<ProtocolVersion, 0>>, <<ProtocolVersion, MaxUint32>>}

\* C39: the version byte and the message id of a request are never looked
\* at: two frames that differ only in them are handled with the same
\* frames written, the same gateway calls, the same session fields and the
\* same database, on every session and under every gateway failure.
C39_VersionAndIdIgnored ==
    \A h \in Serving : \A t \in RequestTypes \cup OtherTypes :
        \A data \in ReadsOf[t] : \A fail \in Fails(t) : \A o \in OtherHeaders :
            HandleRead(h, DB, Reframed(data, o[1], o[2]), fail) =
                HandleRead(h, DB, data, fail)

\* a session authenticated as the owner of a stored item, which has
\* answered two AuthRequests; the reads hold a DataRequest
\* for that item, and the same frame with version 0 is answered with the
\* item too
C39_Witness ==
    \E h \in Serving : \E i \in DOMAIN items : \E data \in ReadsOf[MsgTypeDataRequest] :
        /\ Authenticated(h)
        /\ h.messageID >= 2
        /\ items[i].user_id = h.userID
        /\ data[2] = ProtocolVersion
        /\ DeserializeItemID(PayloadOf(data)).ItemID = i
        /\ \A r \in HandleRead(h, DB, Reframed(data, 0, MaxUint32), 0) :
              /\ Len(r.out) = 1
              /\ r.out[1].Type = MsgTypeDataResponse

\* the elements of a sequence
Elements(seq) == {seq[i] : i \in DOMAIN seq}

\* ascending file-name order, every name once
Ascending(seq) ==
    \A i, j \in DOMAIN seq : i < j => StringLess(seq[i], seq[j])

\* C40: a run of RunMigrations applies migration files that are in the
\* directory (files ending in .sql, no directories) and not yet recorded,
\* in ascending file-name order and each once; it records every migration
\* it applies and keeps the earlier records; it returns no error exactly
\* when it has applied all of them, and otherwise has stopped at the first
\* failing migration, leaving the ones before it applied and recorded and
\* applying none after it; so a later run applies no recorded migration
\* again, and the statements committed are those of the recorded
\* migrations, each once.
C40_IdempotentOrdered ==
    /\ Elements(schema) = migrations
    /\ \A i, j \in DOMAIN schema : i # j => schema[i] # schema[j]
    /\ ran.n > 0 =>
          LET available == {f.name : f \in {g \in ran.dir :
                                ~g.isDir /\ g.name[Len(g.name)] = DotSql}}
              pending   == available \ ran.before
              names     == Elements(ran.applied)
              early     == ran.fail.at = 0 /\ ran.fail.step # "none"
              failing   == ran.fail.at \in 1..Cardinality(pending)
          IN  /\ Ascending(ran.applied)
              /\ names \subseteq pending
              /\ \A a \in names : \A p \in pending \ names : StringLess(a, p)
              /\ migrations = ran.before \cup names
              /\ ran.err <=> (early \/ failing)
              /\ ~ran.err => names = pending
              /\ early => ran.applied = <<>>
              /\ (~early /\ failing) => Len(ran.applied) = ran.fail.at - 1

\* "000002.sql" was recorded by an earlier run; this run found it with
\* "001.sql" and "10.sql", passed it over, applied "001.sql" and returned
\* the error of applying "10.sql"
C40_Witness ==
    /\ ran.n = 2
    /\ ran.before = {FileNames[2]}
    /\ {FileNames[1], FileNames[2], FileNames[3]} \subseteq {f.name : f \in ran.dir}
    /\ ran.applied = <<FileNames[1]>>
    /\ ran.err
    /\ ran.fail.step = "Exec: already exists"
    /\ migrations = {FileNames[1], FileNames[2]}
    /\ schema = <<FileNames[2], FileNames[1]>>

====
